---- MODULE Spec2Model ----
(***************************************************************************)
(* A state-machine model of the chunk store of nordicnode/isolated:        *)
(* world::ChunkManager (src/src/world/chunk_manager.cpp) with its chunk    *)
(* map, LRU bookkeeping, persisted chunk files, ghost-cell exchange and    *)
(* the dense-window sync, and of the coordinate arithmetic of              *)
(* world_to_chunk and the voxel accessors.                                 *)
(*                                                                         *)
(* Data representation.  A chunk's CHUNK_SIZE^3 arrays are kept at the     *)
(* flat indices Chunk::idx(x,y,z) of the voxels whose local coordinates    *)
(* are 0 or CHUNK_SIZE-1 (the eight corners: every face layer is           *)
(* represented); every operation of the manager is pointwise in the        *)
(* index, and the inputs address these voxels only.  Temperatures are      *)
(* whole kelvins, densities are in g/m^3 (1.225 kg/m^3 = 1225), gas        *)
(* fractions in thousandths, viewer positions in half cells.               *)
(*                                                                         *)
(* The module also models core::LODZoneManager                             *)
(* (src/src/core/lod_zone_manager.cpp), thermal::ThermalEngine             *)
(* (src/src/thermal/heat_engine.cpp) and the host path of                  *)
(* fluids::LBMEngine (src/src/fluids/lbm_engine.cpp); their data           *)
(* representations are described with their definitions.                   *)
(***************************************************************************)
EXTENDS Integers, Sequences, FiniteSets, TLC

VARIABLES
    config_,          \* ChunkManagerConfig: load_radius, unload_radius, max_loaded
    loaded_chunks_,   \* ChunkCoord -> Chunk (domain: the loaded coordinates)
    lru_order_,       \* std::list<ChunkCoord>, oldest at the front
    lru_map_,         \* keys of lru_map_; the iterator of key c is the node holding c
    camera_chunk_,    \* last viewer chunk
    disk,             \* chunk files under save_path: ChunkCoord -> file
    disk_writable,    \* environment: whether std::ofstream can open a chunk file
    spinning,         \* TRUE once load_chunk's eviction loop can make no progress
    temp_buffer,      \* the caller's dense temperature buffer (main.cpp)
    density_buffer,   \* the caller's dense density buffer (main.cpp)
    touch_order,      \* history: loaded coordinates by most recent touch, oldest first
    written,          \* history: last value written per world voxel by set_*
    log,              \* history: the last operation, its arguments and what it did
    ops,              \* history: how many operations the bounded walk has made
    coord,            \* the coordinate decomposition under test
    lod,              \* LODZoneManager, the tick counter of its caller and history
    thermal,          \* ThermalEngine and history
    lbm               \* LBMEngine and history

vars == <<config_, loaded_chunks_, lru_order_, lru_map_, camera_chunk_, disk,
          disk_writable, spinning, temp_buffer, density_buffer, touch_order,
          written, log, ops, coord, lod, thermal, lbm>>

engineVars == <<lod, thermal, lbm>>

chunkVars == <<config_, loaded_chunks_, lru_order_, lru_map_, camera_chunk_, disk,
               disk_writable, spinning, temp_buffer, density_buffer, touch_order,
               written, log, ops>>

----------------------------------------------------------------------------
(* Program constants *)

CHUNK_SIZE == 64
ROOM_TEMP == 293
AIR_DENSITY == 1225
O2_DEFAULT == 210
BUFFER_DENSITY == 1000
FILE_VERSION == 1
INT_MAX == 2147483647
INT_MIN == -INT_MAX - 1

AIR == 0
GRANITE == 30
SOIL == 37
STEEL == 50

(* Bounds of the model *)

MaxAbsCoord == 140      \* world coordinates around 0 drawn for the decomposition
EdgeSpan == 70          \* how many coordinates next to INT_MIN and INT_MAX are drawn
HotTemp == 300          \* the temperature written by set_temperature and the solver
MaxLoaded == 2          \* the largest max_loaded of the small configurations
MaxStreamOps == 5       \* the length of the viewer's walk in SpecStream

----------------------------------------------------------------------------
(* C++ integer arithmetic *)

Abs(a) == IF a < 0 THEN -a ELSE a

\* int / int, b > 0: truncation toward zero.  For a < 0 the quotient is
\* -((-a) div b), computed from -(a + 1) so that a = INT_MIN is in range.
TruncDiv(a, b) ==
    IF a >= 0 THEN a \div b
    ELSE -(((-(a + 1)) \div b) + (IF (-(a + 1)) % b = b - 1 THEN 1 ELSE 0))

\* int % int, b > 0: the sign follows the dividend
TruncRem(a, b) == a - b * TruncDiv(a, b)

\* a - k for k >= 0 as a 32-bit two's complement int that wraps around
WrapSub32(a, k) ==
    IF a >= INT_MIN + k THEN a - k
    ELSE ((a + INT_MAX) + 1) + (INT_MAX - k) + 1

\* x + 1 as a 32-bit two's complement int that wraps around
WrapInc32(x) == IF x = INT_MAX THEN INT_MIN ELSE x + 1

\* floor_div of world_to_chunk: a >= 0 ? a / b : (a - b + 1) / b, the numerator
\* evaluated as (a - b) + 1.  The subtraction overflows int for a < INT_MIN + b;
\* signed overflow is undefined, so the outcomes are the quotient of the wrapped
\* numerator (what 32-bit arithmetic leaves) and the exact quotient (what a build
\* that widens the expression yields).
floor_div(a, b) ==
    IF a >= 0 THEN {TruncDiv(a, b)}
    ELSE IF a >= INT_MIN + b THEN {TruncDiv((a - b) + 1, b)}
    ELSE {TruncDiv(WrapInc32(WrapSub32(a, b)), b), -(((-(a + 1)) \div b) + 1)}

\* ChunkManager::world_to_chunk on one axis
world_to_chunk_axis(w) == floor_div(w, CHUNK_SIZE)

\* int + size_t for -n < r < n: the int is converted to the 64-bit unsigned type
\* and the sum is taken modulo 2^64.  For r < 0 that is (2^64 + r + n) mod 2^64,
\* which is n + r since 0 < n + r < 2^64; for r >= 0 nothing wraps.
SizeTAdd(r, n) == r + n

\* the accessors' ((w % static_cast<int>(CHUNK_SIZE)) + CHUNK_SIZE) % CHUNK_SIZE
local_index(w) == SizeTAdd(TruncRem(w, CHUNK_SIZE), CHUNK_SIZE) % CHUNK_SIZE

\* world_to_chunk of a coordinate triple, for coordinates whose floor_div has
\* one outcome (all the coordinates the chunk store is driven with)
world_to_chunk(w) ==
    << CHOOSE c \in world_to_chunk_axis(w[1]) : TRUE,
       CHOOSE c \in world_to_chunk_axis(w[2]) : TRUE,
       CHOOSE c \in world_to_chunk_axis(w[3]) : TRUE >>

\* Chunk::idx
Idx(x, y, z) == x + CHUNK_SIZE * (y + CHUNK_SIZE * z)

\* static_cast<int>(float) of a position given in half cells: toward zero
FloatToInt(h) == TruncDiv(h, 2)

----------------------------------------------------------------------------
(* Chunk *)

Locals == {0, CHUNK_SIZE - 1}
\* the locals on layer 0 that a dense window three cells a side reaches around a chunk's origin
WindowLocals == Locals \cup {1}
Cells ==
    {Idx(x, y, z) : x \in Locals, y \in Locals, z \in Locals}
        \cup {Idx(x, y, 0) : x \in WindowLocals, y \in WindowLocals}
FaceCells == {a + b * CHUNK_SIZE : a \in Locals, b \in Locals}
Faces == 0 .. 5

\* Chunk(ChunkCoord) and Chunk::allocate
NewChunk(c) ==
    [ coords      |-> c,
      material    |-> [i \in Cells |-> AIR],
      temperature |-> [i \in Cells |-> ROOM_TEMP],
      density     |-> [i \in Cells |-> AIR_DENSITY],
      o2_fraction |-> [i \in Cells |-> O2_DEFAULT],
      generated   |-> FALSE,
      dirty       |-> FALSE,
      ghost_temp  |-> [f \in Faces |-> [g \in FaceCells |-> ROOM_TEMP]] ]

\* Chunk::world_origin, z component
world_origin_z(c) == c[3] * CHUNK_SIZE

\* the z coordinate of flat index i (the inverse of Chunk::idx on z)
ZOf(i) == i \div (CHUNK_SIZE * CHUNK_SIZE)

\* the default terrain generator installed by the constructor (a flat world)
terrain_gen_(chunk) ==
    LET wz(i) == world_origin_z(chunk.coords) + ZOf(i)
    IN [chunk EXCEPT
          !.material = [i \in Cells |->
                           IF wz(i) < -10 THEN GRANITE
                           ELSE IF wz(i) < 0 THEN SOIL
                           ELSE AIR],
          !.density = [i \in Cells |->
                           IF wz(i) >= 0 THEN AIR_DENSITY ELSE chunk.density[i]],
          !.generated = TRUE]

\* ChunkManager::generate_chunk
generate_chunk(chunk) == terrain_gen_(chunk)

----------------------------------------------------------------------------
(* Persisted chunk files.  A file is its header and the arrays it holds in   *)
(* the order material, temperature, density, o2_fraction; narrays is the     *)
(* number of arrays the file is long enough to hold (files are cut at array  *)
(* boundaries).                                                              *)

\* static_cast<uint8_t>(Material) and static_cast<Material>(uint8_t)
MaterialToByte(m) == m % 256
ByteToMaterial(b) == b

\* ChunkManager::save_to_disk: nothing is written when the file cannot be opened
save_to_disk(d, chunk) ==
    IF ~disk_writable THEN d
    ELSE (chunk.coords :>
            [ magic       |-> "ICHK",
              version     |-> FILE_VERSION,
              narrays     |-> 4,
              material    |-> [i \in Cells |-> MaterialToByte(chunk.material[i])],
              temperature |-> chunk.temperature,
              density     |-> chunk.density,
              o2_fraction |-> chunk.o2_fraction ]) @@ d

\* ChunkManager::try_load_from_disk.  A read past the end of the file fails and
\* leaves its destination as it was: the zero-filled mat_bytes, or the array
\* Chunk::allocate filled.  No read is checked.
try_load_from_disk(d, chunk) ==
    IF chunk.coords \notin DOMAIN d THEN [ok |-> FALSE, chunk |-> chunk]
    ELSE LET f == d[chunk.coords]
         IN IF f.magic # "ICHK" THEN [ok |-> FALSE, chunk |-> chunk]
            ELSE IF f.version # 1 THEN [ok |-> FALSE, chunk |-> chunk]
            ELSE [ok |-> TRUE,
                  chunk |->
                    [chunk EXCEPT
                       !.material = [i \in Cells |->
                           ByteToMaterial(IF f.narrays >= 1 THEN f.material[i] ELSE 0)],
                       !.temperature =
                           IF f.narrays >= 2 THEN f.temperature ELSE chunk.temperature,
                       !.density =
                           IF f.narrays >= 3 THEN f.density ELSE chunk.density,
                       !.o2_fraction =
                           IF f.narrays >= 4 THEN f.o2_fraction ELSE chunk.o2_fraction,
                       !.dirty = FALSE]]

----------------------------------------------------------------------------
(* The manager's operations on a manager state s:                          *)
(*   loaded, lru, lmap, disk : loaded_chunks_, lru_order_, lru_map_, files *)
(*   spin  : the eviction loop of load_chunk cannot end                    *)
(*   touch : history, the coordinates by most recent touch                 *)
(*   ev    : history, the capacity evictions of the current operation      *)
(*   loads : history, the loads of the current operation                   *)
(*   unl   : history, the chunks destroyed by the current operation        *)

Remove(seq, c) == SelectSeq(seq, LAMBDA e : e # c)
Without(f, c) == [k \in DOMAIN f \ {c} |-> f[k]]
Size(s) == Cardinality(DOMAIN s.loaded)

\* whether the file of c on disk d holds exactly the persisted arrays of chunk
Persisted(d, chunk) ==
    /\ chunk.coords \in DOMAIN d
    /\ d[chunk.coords].magic = "ICHK"
    /\ d[chunk.coords].version = FILE_VERSION
    /\ d[chunk.coords].narrays = 4
    /\ \A i \in Cells : ByteToMaterial(d[chunk.coords].material[i]) = chunk.material[i]
    /\ d[chunk.coords].temperature = chunk.temperature
    /\ d[chunk.coords].density = chunk.density
    /\ d[chunk.coords].o2_fraction = chunk.o2_fraction

\* a faulty variant of unload_chunk: the chunk leaves the map and lru_map_, its
\* node stays in lru_order_
unload_chunk_leaving_node(s, c) ==
    IF c \notin DOMAIN s.loaded THEN s
    ELSE LET chunk == s.loaded[c]
             d == IF chunk.dirty THEN save_to_disk(s.disk, chunk) ELSE s.disk
         IN [s EXCEPT
               !.disk = d,
               !.loaded = Without(s.loaded, c),
               !.lmap = s.lmap \ {c},
               !.touch = Remove(s.touch, c),
               !.unl = Append(s.unl, [coords |-> c, dirty |-> chunk.dirty,
                                      saved |-> Persisted(d, chunk)])]

\* ChunkManager::unload_chunk
unload_chunk(s, c) ==
    IF c \notin DOMAIN s.loaded THEN s
    ELSE LET chunk == s.loaded[c]
             d == IF chunk.dirty THEN save_to_disk(s.disk, chunk) ELSE s.disk
         IN [s EXCEPT
               !.disk = d,
               !.loaded = Without(s.loaded, c),
               !.lru = IF c \in s.lmap THEN Remove(s.lru, c) ELSE s.lru,
               !.lmap = s.lmap \ {c},
               !.touch = Remove(s.touch, c),
               !.unl = Append(s.unl, [coords |-> c, dirty |-> chunk.dirty,
                                      saved |-> Persisted(d, chunk)])]

\* ChunkManager::evict_lru
evict_lru(s) ==
    IF s.lru = <<>> THEN s
    ELSE LET oldest == Head(s.lru)
             u == unload_chunk(s, oldest)
         IN IF oldest \in DOMAIN s.loaded
            THEN [u EXCEPT !.ev = Append(s.ev, [victim |-> oldest,
                                                 stalest |-> Head(s.touch)])]
            ELSE u

\* a faulty variant of the eviction loop, its bound off by one:
\*   while (loaded_chunks_.size() > config_.max_loaded) evict_lru();
RECURSIVE evict_while_over(_)
evict_while_over(s) ==
    IF Size(s) > config_.max_loaded
    THEN IF Size(evict_lru(s)) = Size(s) THEN [s EXCEPT !.spin = TRUE]
         ELSE evict_while_over(evict_lru(s))
    ELSE s

\* the eviction loop of load_chunk:
\*   while (loaded_chunks_.size() >= config_.max_loaded) evict_lru();
\* a pass that unloads nothing leaves the condition as it was: the loop spins
RECURSIVE evict_while_full(_)
evict_while_full(s) ==
    IF Size(s) >= config_.max_loaded
    THEN LET e == evict_lru(s)
         IN IF Size(e) = Size(s) THEN [s EXCEPT !.spin = TRUE]
            ELSE evict_while_full(e)
    ELSE s

\* how the file of c reads: missing, or by its header and length
FileKind(d, c) ==
    IF c \notin DOMAIN d THEN "missing"
    ELSE IF d[c].magic # "ICHK" THEN "bad_magic"
    ELSE IF d[c].version # FILE_VERSION THEN "bad_version"
    ELSE IF d[c].narrays < 4 THEN "short"
    ELSE "valid"

\* load_chunk after its eviction loop has left state e: the chunk is made, read
\* from its file or generated, and entered in the map and at the back of the LRU
load_into(e, coords, chunk, before, evicted) ==
    [e EXCEPT
       !.loaded = (coords :> chunk) @@ e.loaded,
       !.lru = Append(e.lru, coords),
       !.lmap = e.lmap \cup {coords},
       !.touch = Append(Remove(e.touch, coords), coords),
       !.loads = Append(e.loads,
                  [coords |-> coords,
                   before |-> before,
                   evicted |-> evicted,
                   file |-> FileKind(e.disk, coords),
                   as_generated |-> chunk = generate_chunk(NewChunk(coords))])]

\* the chunk load_chunk makes: the file's content if try_load_from_disk accepts
\* the file, the generator's otherwise
made_chunk(r, fresh) == IF r.ok THEN r.chunk ELSE generate_chunk(fresh)

load_after_evict(e, s, coords) ==
    IF e.spin THEN e
    ELSE load_into(e, coords,
                   made_chunk(try_load_from_disk(e.disk, NewChunk(coords)), NewChunk(coords)),
                   Size(s), Len(e.ev) - Len(s.ev))

\* ChunkManager::load_chunk
load_chunk(s, coords) == load_after_evict(evict_while_full(s), s, coords)

\* ChunkManager::get_chunk_at: [s |-> the state after, found |-> whether a chunk
\* is returned].  A hit returns the chunk and does no bookkeeping.
Returned(l, coords) == [s |-> l, found |-> coords \in DOMAIN l.loaded]

get_chunk_at(s, coords) ==
    IF coords \in DOMAIN s.loaded
    THEN [s |-> [s EXCEPT !.touch = Append(Remove(s.touch, coords), coords)],
          found |-> TRUE]
    ELSE Returned(load_chunk(s, coords), coords)

\* ChunkManager::get_chunk
get_chunk(s, w) == get_chunk_at(s, world_to_chunk(w))

\* the flat index of world voxel w in its chunk, as the accessors compute it
local_idx(w) == Idx(local_index(w[1]), local_index(w[2]), local_index(w[3]))

\* ChunkManager::update, the loading loops: target k of the (2r+1)^3 targets in
\* the order of the loops (dz outermost, dx innermost)
Target(cam, k) ==
    LET r == config_.load_radius
        n == 2 * r + 1
    IN << cam[1] + (k % n) - r, cam[2] + ((k \div n) % n) - r, cam[3] + (k \div (n * n)) - r >>

RECURSIVE load_around(_, _, _)
load_around(s, cam, k) ==
    LET n == 2 * config_.load_radius + 1
    IN IF k >= n * n * n \/ s.spin THEN s
       ELSE load_around(IF Target(cam, k) \in DOMAIN s.loaded THEN s
                        ELSE load_chunk(s, Target(cam, k)),
                        cam, k + 1)

\* std::max of the three std::abs differences
ChebyshevDist(a, b) ==
    LET dx == Abs(a[1] - b[1])
        dy == Abs(a[2] - b[2])
        dz == Abs(a[3] - b[3])
        m == IF dx >= dy THEN dx ELSE dy
    IN IF m >= dz THEN m ELSE dz

RECURSIVE unload_all(_, _)
unload_all(s, cs) ==
    IF cs = {} THEN s
    ELSE LET c == CHOOSE x \in cs : TRUE
         IN unload_all(unload_chunk(s, c), cs \ {c})

\* ChunkManager::update after its loading loops have left state l: the chunks
\* beyond unload_radius are collected and unloaded
unload_distant(l, new_cam) ==
    IF l.spin THEN l
    ELSE unload_all(l, {c \in DOMAIN l.loaded :
                           ChebyshevDist(c, new_cam) > config_.unload_radius})

update_at(s, new_cam) ==
    [s |-> unload_distant(load_around(s, new_cam, 0), new_cam), cam |-> new_cam]

\* ChunkManager::update; the position is given in half cells
update(s, pos) ==
    update_at(s, world_to_chunk(<<FloatToInt(pos[1]), FloatToInt(pos[2]), FloatToInt(pos[3])>>))

\* ChunkManager::save_all: the dirty flag is cleared whatever save_to_disk did
RECURSIVE save_all(_, _)
save_all(s, cs) ==
    IF cs = {} THEN s
    ELSE LET c == CHOOSE x \in cs : TRUE
             chunk == s.loaded[c]
         IN save_all(IF chunk.dirty
                     THEN [s EXCEPT !.disk = save_to_disk(s.disk, chunk),
                                    !.loaded[c].dirty = FALSE]
                     ELSE s,
                     cs \ {c})

\* ChunkManager::exchange_ghost_cells: the +X and -X neighbours are copied; the
\* source has no code for the other four faces
exchange_ghost_cells(loaded) ==
    [c \in DOMAIN loaded |->
       LET px == <<c[1] + 1, c[2], c[3]>>
           mx == <<c[1] - 1, c[2], c[3]>>
       IN [loaded[c] EXCEPT
             !.ghost_temp =
                [f \in Faces |->
                   IF f = 0 /\ px \in DOMAIN loaded
                   THEN [g \in FaceCells |->
                           loaded[px].temperature[Idx(0, g % CHUNK_SIZE, g \div CHUNK_SIZE)]]
                   ELSE IF f = 1 /\ mx \in DOMAIN loaded
                   THEN [g \in FaceCells |->
                           loaded[mx].temperature[Idx(CHUNK_SIZE - 1, g % CHUNK_SIZE, g \div CHUNK_SIZE)]]
                   ELSE loaded[c].ghost_temp[f]]]]

----------------------------------------------------------------------------
(* The dense-window sync.  a = [s, tb, db]: the manager state and the two   *)
(* buffers; the buffers are 0-based in the source and 1-based here.         *)

\* std::vector::resize(size, fill), called when the size differs
Resize(buf, size, fill) ==
    IF Len(buf) = size THEN buf
    ELSE [i \in 1 .. size |-> IF i <= Len(buf) THEN buf[i] ELSE fill]

\* a faulty variant of the lookup, made through get_chunk_at, which loads on a miss
find_or_load(s, cc) == get_chunk_at(s, cc)

\* loaded_chunks_.find(cc): a lookup that never loads
find_loaded(s, cc) == [s |-> s, found |-> cc \in DOMAIN s.loaded]

\* the window's world origin on one axis: camera chunk * CHUNK_SIZE - extent / 2
WindowOrigin(camc, extent) == camc * CHUNK_SIZE - TruncDiv(extent, 2)

\* a faulty variant of the copy: the temperature accumulated into the buffer, += for =
add_to_buffers(a, idx, chunk, cidx) ==
    [a EXCEPT !.tb[idx + 1] = a.tb[idx + 1] + chunk.temperature[cidx],
              !.db[idx + 1] = chunk.density[cidx]]

\* the two assignments of sync_to_physics for one cell
copy_to_buffers(a, idx, chunk, cidx) ==
    [a EXCEPT !.tb[idx + 1] = chunk.temperature[cidx],
              !.db[idx + 1] = chunk.density[cidx]]

RECURSIVE sync_to_cells(_, _, _, _, _)
sync_to_cells(a, k, width, height, z_level) ==
    IF k >= width * height THEN a
    ELSE LET px == k % width
             py == k \div width
             world_x == WindowOrigin(camera_chunk_[1], width) + px
             world_y == WindowOrigin(camera_chunk_[2], height) + py
             idx == py * width + px
             cc == world_to_chunk(<<world_x, world_y, z_level>>)
             f == find_loaded(a.s, cc)
             cidx == Idx(local_index(world_x), local_index(world_y), local_index(z_level))
             b == [a EXCEPT !.s = f.s]
         IN sync_to_cells(IF f.found
                          THEN copy_to_buffers(b, idx, f.s.loaded[cc], cidx)
                          ELSE b,
                          k + 1, width, height, z_level)

\* ChunkManager::sync_to_physics
sync_to_physics(s, tb, db, width, height, z_level) ==
    sync_to_cells([s |-> s,
                   tb |-> Resize(tb, width * height, ROOM_TEMP),
                   db |-> Resize(db, width * height, BUFFER_DENSITY)],
                  0, width, height, z_level)

RECURSIVE sync_from_cells(_, _, _, _, _)
sync_from_cells(a, k, width, height, z_level) ==
    IF k >= width * height THEN a
    ELSE LET px == k % width
             py == k \div width
             world_x == WindowOrigin(camera_chunk_[1], width) + px
             world_y == WindowOrigin(camera_chunk_[2], height) + py
             idx == py * width + px
             cc == world_to_chunk(<<world_x, world_y, z_level>>)
             f == find_loaded(a.s, cc)
             cidx == Idx(local_index(world_x), local_index(world_y), local_index(z_level))
             b == [a EXCEPT !.s = f.s]
         IN sync_from_cells(IF f.found
                            THEN [b EXCEPT !.s.loaded[cc].temperature[cidx] = b.tb[idx + 1],
                                           !.s.loaded[cc].dirty = TRUE]
                            ELSE b,
                            k + 1, width, height, z_level)

\* ChunkManager::sync_from_physics
sync_from_physics(s, tb, db, width, height, z_level) ==
    IF Len(tb) # width * height THEN [s |-> s, tb |-> tb, db |-> db]
    ELSE sync_from_cells([s |-> s, tb |-> tb, db |-> db], 0, width, height, z_level)

----------------------------------------------------------------------------
(* Inputs *)

\* configurations with load_radius 0: update loads the viewer's chunk only
SmallConfigs ==
    {[load_radius |-> 0, unload_radius |-> u, max_loaded |-> m] :
        u \in 0 .. 1, m \in 1 .. MaxLoaded}

\* configurations with load_radius 1 and room for fewer chunks than a load cube
TightConfigs ==
    {[load_radius |-> 1, unload_radius |-> 1, max_loaded |-> m] : m \in 1 .. MaxLoaded}

\* the smallest configuration with load_radius 1 that holds a whole load cube
StreamConfigs ==
    {[load_radius |-> 1, unload_radius |-> 1, max_loaded |-> 3 * 3 * 3]}

\* viewer positions in half cells: (0.5, 0.5, 0), (-64.5, 0, 0), (64.5, 0, 0)
ViewerPositions == {<<1, 1, 0>>, <<-129, 0, 0>>, <<129, 0, 0>>}

\* chunk coordinates asked of get_chunk_at
AccessCoords == {<<0, 0, 0>>, <<1, 0, 0>>, <<0, 0, -1>>}

\* chunk coordinates asked of get_chunk_at while streaming
StreamAccessCoords == {<<1, 0, 0>>}

\* world voxels read and written through the accessors
WorldVoxels == {<<0, 0, 0>>, <<-1, 0, 0>>, <<0, 0, -1>>}

\* world voxels written through set_material and set_temperature
WrittenVoxels == {<<0, 0, -1>>}

\* dense windows (width, height) and z levels given to the sync
Windows == {<<1, 1>>, <<2, 1>>}
ZLevels == {0}
MaxWindowCells == 2

\* the configurations and viewer positions of the thermal path
SyncConfigs == {[load_radius |-> 0, unload_radius |-> 1, max_loaded |-> MaxLoaded]}
SyncViewerPositions == {<<1, 1, 0>>, <<-129, 0, 0>>}
SyncVoxels == {<<-1, 0, 0>>}

\* chunk files found under save_path at start: none, or one unusable file of the
\* chunk below the origin
StaleChunk == <<0, 0, -1>>
StaleFile(magic, version, narrays) ==
    [ magic       |-> magic,
      version     |-> version,
      narrays     |-> narrays,
      material    |-> [i \in Cells |-> MaterialToByte(STEEL)],
      temperature |-> [i \in Cells |-> HotTemp],
      density     |-> [i \in Cells |-> AIR_DENSITY],
      o2_fraction |-> [i \in Cells |-> O2_DEFAULT] ]
InitialDisks ==
    {<<>>} \cup
    {(StaleChunk :> f) : f \in {StaleFile("XXXX", FILE_VERSION, 4),
                                StaleFile("ICHK", FILE_VERSION + 1, 4),
                                StaleFile("ICHK", FILE_VERSION, 1),
                                StaleFile("ICHK", FILE_VERSION, 4)}}

----------------------------------------------------------------------------
(* Actions *)

\* no engine has been constructed beside the chunk store
EnginesIdle == lod = <<>> /\ thermal = <<>> /\ lbm = <<>>

NoLog == [op |-> "none", arg |-> <<>>, result |-> 0,
          ev |-> <<>>, loads |-> <<>>, unl |-> <<>>, pre |-> <<>>]

S0 == [loaded |-> loaded_chunks_, lru |-> lru_order_, lmap |-> lru_map_,
       disk |-> disk, spin |-> FALSE, touch |-> touch_order,
       ev |-> <<>>, loads |-> <<>>, unl |-> <<>>]

Commit(s) ==
    /\ loaded_chunks_' = s.loaded
    /\ lru_order_' = s.lru
    /\ lru_map_' = s.lmap
    /\ disk' = s.disk
    /\ spinning' = s.spin
    /\ touch_order' = s.touch

LogOf(s, op, arg, result) ==
    [op |-> op, arg |-> arg, result |-> result,
     ev |-> s.ev, loads |-> s.loads, unl |-> s.unl, pre |-> <<>>]

InitChunks(configs, disks) ==
    /\ config_ \in configs
    /\ loaded_chunks_ = <<>>
    /\ lru_order_ = <<>>
    /\ lru_map_ = {}
    /\ camera_chunk_ = <<0, 0, 0>>
    /\ disk \in disks
    /\ disk_writable = TRUE
    /\ spinning = FALSE
    /\ temp_buffer = <<>>
    /\ density_buffer = <<>>
    /\ touch_order = <<>>
    /\ written = [t |-> <<>>, m |-> <<>>]
    /\ log = NoLog
    /\ ops = 0

Updated(s, cam) ==
    /\ Commit(s)
    /\ camera_chunk_' = IF s.spin THEN camera_chunk_ ELSE cam
    /\ log' = LogOf(s, "update", <<>>, 0)

UpdateDone(r) == Updated(r.s, r.cam)

UpdateOp(pos) ==
    /\ ~spinning
    /\ UpdateDone(update(S0, pos))
    /\ UNCHANGED <<config_, disk_writable, temp_buffer, density_buffer, written, coord, engineVars>>

Update(pos) == UpdateOp(pos) /\ UNCHANGED ops

Got(s, op, w, result) ==
    /\ Commit(s)
    /\ log' = LogOf(s, op, w, result)

GetChunkAtDone(g) == Got(g.s, "get_chunk_at", <<>>, 0)

GetChunkAtOp(c) ==
    /\ ~spinning
    /\ GetChunkAtDone(get_chunk_at(S0, c))
    /\ UNCHANGED <<config_, camera_chunk_, disk_writable, temp_buffer, density_buffer,
                   written, coord, engineVars>>

GetChunkAt(c) == GetChunkAtOp(c) /\ UNCHANGED ops

\* the same two operations as steps of a walk of bounded length
WalkUpdate(pos) == ops < MaxStreamOps /\ UpdateOp(pos) /\ ops' = ops + 1
WalkGetChunkAt(c) == ops < MaxStreamOps /\ GetChunkAtOp(c) /\ ops' = ops + 1

\* ChunkManager::get_material after get_chunk
get_material(g, w) ==
    IF g.found THEN g.s.loaded[world_to_chunk(w)].material[local_idx(w)] ELSE AIR

\* ChunkManager::get_temperature after get_chunk
get_temperature(g, w) ==
    IF g.found THEN g.s.loaded[world_to_chunk(w)].temperature[local_idx(w)] ELSE ROOM_TEMP

\* ChunkManager::set_material after get_chunk
set_material(g, w, mat) ==
    IF g.found
    THEN [g.s EXCEPT !.loaded[world_to_chunk(w)].material[local_idx(w)] = mat,
                     !.loaded[world_to_chunk(w)].dirty = TRUE]
    ELSE g.s

\* ChunkManager::set_temperature after get_chunk
set_temperature(g, w, temp) ==
    IF g.found
    THEN [g.s EXCEPT !.loaded[world_to_chunk(w)].temperature[local_idx(w)] = temp,
                     !.loaded[world_to_chunk(w)].dirty = TRUE]
    ELSE g.s

GetMaterialDone(g, w) == Got(g.s, "get_material", w, get_material(g, w))
GetTemperatureDone(g, w) == Got(g.s, "get_temperature", w, get_temperature(g, w))

SetMaterialDone(g, w, mat) ==
    /\ Got(set_material(g, w, mat), "set_material", <<>>, 0)
    /\ written' = IF g.found /\ ~g.s.spin
                  THEN [written EXCEPT !.m = (w :> mat) @@ written.m]
                  ELSE written

SetTemperatureDone(g, w, temp) ==
    /\ Got(set_temperature(g, w, temp), "set_temperature", <<>>, 0)
    /\ written' = IF g.found /\ ~g.s.spin
                  THEN [written EXCEPT !.t = (w :> temp) @@ written.t]
                  ELSE written

GetMaterial(w) ==
    /\ ~spinning
    /\ GetMaterialDone(get_chunk(S0, w), w)
    /\ UNCHANGED <<config_, camera_chunk_, disk_writable, temp_buffer, density_buffer,
                   written, coord, engineVars, ops>>

GetTemperature(w) ==
    /\ ~spinning
    /\ GetTemperatureDone(get_chunk(S0, w), w)
    /\ UNCHANGED <<config_, camera_chunk_, disk_writable, temp_buffer, density_buffer,
                   written, coord, engineVars, ops>>

SetMaterial(w, mat) ==
    /\ ~spinning
    /\ SetMaterialDone(get_chunk(S0, w), w, mat)
    /\ UNCHANGED <<config_, camera_chunk_, disk_writable, temp_buffer, density_buffer, coord, engineVars, ops>>

SetTemperature(w, temp) ==
    /\ ~spinning
    /\ SetTemperatureDone(get_chunk(S0, w), w, temp)
    /\ UNCHANGED <<config_, camera_chunk_, disk_writable, temp_buffer, density_buffer, coord, engineVars, ops>>

SaveAll ==
    /\ ~spinning
    /\ Commit(save_all(S0, DOMAIN loaded_chunks_))
    /\ log' = [NoLog EXCEPT !.op = "save_all"]
    /\ UNCHANGED <<config_, camera_chunk_, disk_writable, temp_buffer, density_buffer,
                   written, coord, engineVars, ops>>

ExchangeGhostCells ==
    /\ ~spinning
    /\ loaded_chunks_' = exchange_ghost_cells(loaded_chunks_)
    /\ log' = [NoLog EXCEPT !.op = "exchange_ghost_cells",
                            !.pre = [c \in DOMAIN loaded_chunks_ |->
                                        loaded_chunks_[c].temperature]]
    /\ UNCHANGED <<config_, lru_order_, lru_map_, camera_chunk_, disk, disk_writable,
                   spinning, temp_buffer, density_buffer, touch_order, written, coord, engineVars, ops>>

Synced(a, op, arg) ==
    /\ Commit(a.s)
    /\ temp_buffer' = a.tb
    /\ density_buffer' = a.db
    /\ log' = [NoLog EXCEPT !.op = op, !.arg = arg,
                            !.pre = <<DOMAIN loaded_chunks_, lru_order_>>]

SyncToPhysics(win, z_level) ==
    /\ ~spinning
    /\ Synced(sync_to_physics(S0, temp_buffer, density_buffer, win[1], win[2], z_level),
              "sync_to_physics", <<win[1], win[2], z_level>>)
    /\ UNCHANGED <<config_, camera_chunk_, disk_writable, written, coord, engineVars, ops>>

SyncFromPhysics(win, z_level) ==
    /\ ~spinning
    /\ Synced(sync_from_physics(S0, temp_buffer, density_buffer, win[1], win[2], z_level),
              "sync_from_physics", <<win[1], win[2], z_level>>)
    /\ UNCHANGED <<config_, camera_chunk_, disk_writable, written, coord, engineVars, ops>>

\* the thermal solver between two syncs: a cell of the dense field heats up
PhysicsStep(i) ==
    /\ ~spinning
    /\ i \in 1 .. Len(temp_buffer)
    /\ temp_buffer' = [temp_buffer EXCEPT ![i] = HotTemp]
    /\ log' = [NoLog EXCEPT !.op = "physics_step"]
    /\ UNCHANGED <<config_, loaded_chunks_, lru_order_, lru_map_, camera_chunk_, disk,
                   disk_writable, spinning, density_buffer, touch_order, written, coord, engineVars, ops>>

\* the environment: the save directory stops or starts being writable
DiskFault ==
    /\ ~spinning
    /\ disk_writable' = ~disk_writable
    /\ log' = [NoLog EXCEPT !.op = "disk_fault"]
    /\ UNCHANGED <<config_, loaded_chunks_, lru_order_, lru_map_, camera_chunk_, disk,
                   spinning, temp_buffer, density_buffer, touch_order, written, coord, engineVars, ops>>

----------------------------------------------------------------------------
(* SpecLru: the chunk store driven by a streaming caller that moves the    *)
(* viewer and reads chunks and voxels; nothing is written, no file exists. *)

InitLru ==
    /\ InitChunks(SmallConfigs \cup TightConfigs, {<<>>})
    /\ coord = <<>>
    /\ EnginesIdle

NextLru ==
    \/ \E pos \in ViewerPositions : Update(pos)
    \/ \E c \in AccessCoords : GetChunkAt(c)
    \/ \E w \in WorldVoxels : GetMaterial(w)
    \/ \E w \in WorldVoxels : GetTemperature(w)

SpecLru == InitLru /\ [][NextLru]_vars

----------------------------------------------------------------------------
(* SpecStore: the small configurations and the one with room for no chunk;  *)
(* the viewer moves, chunks are fetched and voxels are heated.              *)

ZeroConfigs == {[load_radius |-> 0, unload_radius |-> 0, max_loaded |-> 0]}

InitStore ==
    /\ InitChunks(SmallConfigs \cup ZeroConfigs, {<<>>})
    /\ coord = <<>>
    /\ EnginesIdle

NextStore ==
    \/ \E pos \in ViewerPositions : Update(pos)
    \/ \E c \in AccessCoords : GetChunkAt(c)
    \/ \E w \in WorldVoxels : SetTemperature(w, HotTemp)

SpecStore == InitStore /\ [][NextStore]_vars

----------------------------------------------------------------------------
(* SpecStream: a viewer walking along x over a store that holds exactly one *)
(* load cube of radius 1, with one chunk also fetched directly.             *)

InitStream ==
    /\ InitChunks(StreamConfigs, {<<>>})
    /\ coord = <<>>
    /\ EnginesIdle

NextStream ==
    \/ \E pos \in ViewerPositions : WalkUpdate(pos)
    \/ \E c \in StreamAccessCoords : WalkGetChunkAt(c)

SpecStream == InitStream /\ [][NextStream]_vars

----------------------------------------------------------------------------
(* Spec: the chunk store with voxel writes, saves, files left by an earlier *)
(* run and a save directory that can become unwritable.                     *)

Init ==
    /\ InitChunks(SmallConfigs, InitialDisks)
    /\ coord = <<>>
    /\ EnginesIdle

Next ==
    \/ \E pos \in ViewerPositions : Update(pos)
    \/ \E w \in WrittenVoxels : GetMaterial(w)
    \/ \E w \in WrittenVoxels : GetTemperature(w)
    \/ \E w \in WrittenVoxels : SetMaterial(w, STEEL)
    \/ \E w \in WrittenVoxels : SetTemperature(w, HotTemp)
    \/ SaveAll
    \/ DiskFault

Spec == Init /\ [][Next]_vars

----------------------------------------------------------------------------
(* SpecGhost: the viewer moves, voxels are heated and the ghost layers are  *)
(* exchanged.                                                               *)

InitGhost ==
    /\ InitChunks(SyncConfigs, {<<>>})
    /\ coord = <<>>
    /\ EnginesIdle

NextGhost ==
    \/ \E pos \in SyncViewerPositions : Update(pos)
    \/ \E w \in WorldVoxels : SetTemperature(w, HotTemp)
    \/ ExchangeGhostCells

SpecGhost == InitGhost /\ [][NextGhost]_vars

----------------------------------------------------------------------------
(* SpecSync: the main loop's thermal path.  The viewer moves, voxels are    *)
(* heated and the dense window is copied out of and into the chunk store    *)
(* around solver steps.                                                     *)

InitSync ==
    /\ InitChunks(SyncConfigs, {<<>>})
    /\ coord = <<>>
    /\ EnginesIdle

NextSync ==
    \/ \E pos \in SyncViewerPositions : Update(pos)
    \/ \E w \in SyncVoxels : SetTemperature(w, HotTemp)
    \/ \E win \in Windows, z \in ZLevels : SyncToPhysics(win, z)
    \/ \E win \in Windows, z \in ZLevels : SyncFromPhysics(win, z)
    \/ \E i \in 1 .. MaxWindowCells : PhysicsStep(i)

SpecSync == InitSync /\ [][NextSync]_vars

----------------------------------------------------------------------------
(* SpecCoord: the decomposition of one world coordinate into chunk index    *)
(* and local index, for coordinates around 0 and at both ends of int.       *)

CoordInputs ==
    (-MaxAbsCoord .. MaxAbsCoord)
        \cup {INT_MIN + k : k \in 0 .. EdgeSpan}
        \cup {INT_MAX - k : k \in 0 .. EdgeSpan}

InitCoord ==
    /\ InitChunks({CHOOSE c \in SmallConfigs : TRUE}, {<<>>})
    /\ coord \in {[pc |-> "input", w |-> w, c |-> 0, l |-> 0] : w \in CoordInputs}
    /\ EnginesIdle

\* world_to_chunk and the accessors' local index applied to coord.w
Decompose ==
    /\ coord.pc = "input"
    /\ \E c \in world_to_chunk_axis(coord.w) :
          coord' = [pc |-> "done", w |-> coord.w, c |-> c, l |-> local_index(coord.w)]
    /\ UNCHANGED <<chunkVars, engineVars>>

NextCoord == Decompose

SpecCoord == InitCoord /\ [][NextCoord]_vars

----------------------------------------------------------------------------
(* core::LODZoneManager.  lod.config_ and lod.viewport_ are the manager's  *)
(* members; lod.step_count is the tick counter of the caller that asks     *)
(* should_update for every cell of the grid once per tick; lod.updated is  *)
(* what the last tick was answered, lod.at the step_count and lod.asked    *)
(* the manager it was asked with, and lod.idle counts, per cell, the ticks *)
(* since the cell was last told to update.                                 *)

MaxRegions == 5
MaxTicks == 8
StartSpan == 3

LodConfigs ==
    {[nx |-> nx, ny |-> 2, num_regions |-> n] : nx \in {2, 3}, n \in 1 .. MaxRegions}

LodViewports ==
    {[x_min |-> 0, x_max |-> 0, y_min |-> 0, y_max |-> 0],
     [x_min |-> 1, x_max |-> 1, y_min |-> 0, y_max |-> 1],
     [x_min |-> 2, x_max |-> 1, y_min |-> 0, y_max |-> 1]}

LodCells(cfg) == (0 .. cfg.nx - 1) \X (0 .. cfg.ny - 1)

\* LODZoneManager::LODZoneManager: the default viewport covers the grid
LODZoneManager(cfg) ==
    [config_ |-> cfg,
     viewport_ |-> [x_min |-> 0, x_max |-> cfg.nx, y_min |-> 0, y_max |-> cfg.ny]]

\* a faulty variant: the region index returned without the final % num_regions
get_region_unwrapped(m, x, y) ==
    (IF x >= TruncDiv(m.config_.nx, 2) THEN 1 ELSE 0)
        + (IF y >= TruncDiv(m.config_.ny, 2) THEN 2 ELSE 0)

get_region(m, x, y) ==
    TruncRem((IF x >= TruncDiv(m.config_.nx, 2) THEN 1 ELSE 0)
                + (IF y >= TruncDiv(m.config_.ny, 2) THEN 2 ELSE 0),
             m.config_.num_regions)

\* a faulty variant: the viewport test with exclusive upper bounds
in_viewport_exclusive(m, x, y) ==
    /\ x >= m.viewport_.x_min /\ x < m.viewport_.x_max
    /\ y >= m.viewport_.y_min /\ y < m.viewport_.y_max

in_viewport(m, x, y) ==
    /\ x >= m.viewport_.x_min /\ x <= m.viewport_.x_max
    /\ y >= m.viewport_.y_min /\ y <= m.viewport_.y_max

should_update(m, x, y, step_count) ==
    IF in_viewport(m, x, y)
    THEN TRUE
    ELSE get_region(m, x, y) = TruncRem(step_count, m.config_.num_regions)

set_viewport(m, bounds) == [m EXCEPT !.viewport_ = bounds]

InitLod ==
    /\ InitChunks({CHOOSE c \in SmallConfigs : TRUE}, {<<>>})
    /\ coord = <<>>
    /\ thermal = <<>>
    /\ lbm = <<>>
    /\ \E cfg \in LodConfigs, s \in 0 .. StartSpan :
          lod = [m |-> LODZoneManager(cfg), step_count |-> s, at |-> -1,
                 asked |-> LODZoneManager(cfg),
                 updated |-> [c \in LodCells(cfg) |-> TRUE],
                 idle |-> [c \in LodCells(cfg) |-> 0]]

SetViewport(bounds) ==
    /\ lod' = [lod EXCEPT !.m = set_viewport(lod.m, bounds)]
    /\ UNCHANGED <<chunkVars, coord, thermal, lbm>>

\* one tick of the caller: should_update asked for every cell, then ++step_count
LodTick ==
    /\ lod.step_count < MaxTicks
    /\ lod' = [lod EXCEPT
          !.updated = [c \in DOMAIN lod.updated |->
                          should_update(lod.m, c[1], c[2], lod.step_count)],
          !.idle = [c \in DOMAIN lod.idle |->
                       IF should_update(lod.m, c[1], c[2], lod.step_count)
                       THEN 0 ELSE lod.idle[c] + 1],
          !.at = lod.step_count,
          !.asked = lod.m,
          !.step_count = lod.step_count + 1]
    /\ UNCHANGED <<chunkVars, coord, thermal, lbm>>

NextLod ==
    \/ \E bounds \in LodViewports : SetViewport(bounds)
    \/ LodTick

SpecLod == InitLod /\ [][NextLod]_vars

----------------------------------------------------------------------------
(* thermal::ThermalEngine.  The engine's doubles are kept at a fixed       *)
(* resolution and divided by truncation: temperatures in centikelvin       *)
(* (293.15 K = 29315), conductivity in mW/(m K), specific heat in          *)
(* J/(kg K), density in g/m^3, emissivity in hundredths, latent heat in    *)
(* J/kg, sources and decay heat in W/m^3, enthalpy in J/m^3, fluid         *)
(* velocity in mm/s, dt in seconds, dx in metres.  MATERIALS holds the     *)
(* rows of the table that the inputs name.  thermal.e is the engine,       *)
(* thermal.pre the engine before the last operation, thermal.absorbed the  *)
(* heat per volume a cell has received since it reached its melting point. *)

THERMAL_ROOM_TEMP == 29315
RADIATION_THRESHOLD == 50000
STEFAN_BOLTZMANN == 567

MaxThermalSteps == 5
MaxThermalCalls == 3
HeaterWatts == 100000000
MaxTemperature == 200000

\* x * m / d, truncated toward zero, without the product x * m
MulDiv(x, m, d) ==
    IF x >= 0
    THEN (x \div d) * m + ((x % d) * m) \div d
    ELSE -(((-x) \div d) * m + (((-x) % d) * m) \div d)

MATERIALS ==
    [name \in {"air", "ice", "co2_ice", "granite"} |->
        CASE name = "air" ->
               [thermal_conductivity |-> 26, specific_heat |-> 1005,
                density |-> 1225, emissivity |-> 0,
                melting_point |-> 0, boiling_point |-> 0,
                latent_heat_fusion |-> 0, latent_heat_vaporization |-> 0]
          [] name = "ice" ->
               [thermal_conductivity |-> 2200, specific_heat |-> 2090,
                density |-> 917000, emissivity |-> 97,
                melting_point |-> 27315, boiling_point |-> 37315,
                latent_heat_fusion |-> 334000, latent_heat_vaporization |-> 2260000]
          [] name = "co2_ice" ->
               [thermal_conductivity |-> 500, specific_heat |-> 850,
                density |-> 1560000, emissivity |-> 90,
                melting_point |-> 19465, boiling_point |-> 19465,
                latent_heat_fusion |-> 571000, latent_heat_vaporization |-> 571000]
          [] OTHER ->
               [thermal_conductivity |-> 2500, specific_heat |-> 790,
                density |-> 2700000, emissivity |-> 90,
                melting_point |-> 150000, boiling_point |-> 300000,
                latent_heat_fusion |-> 0, latent_heat_vaporization |-> 0]]

ThermalConfigs ==
    {[nx |-> 3, ny |-> 3, nz |-> 1, dx |-> 1, enable_radiation |-> r,
      radiation_threshold |-> RADIATION_THRESHOLD] : r \in BOOLEAN}

thermal_idx(cfg, x, y, z) == x + cfg.nx * (y + cfg.ny * z)

ThermalCells(cfg) == 0 .. cfg.nx * cfg.ny * cfg.nz - 1

\* the cells the conduction and advection loops visit: 1 <= x < nx - 1,
\* 1 <= y < ny - 1, every z
InnerCells(cfg) ==
    {thermal_idx(cfg, x, y, z) :
        x \in 1 .. cfg.nx - 2, y \in 1 .. cfg.ny - 2, z \in 0 .. cfg.nz - 1}

CellX(cfg, i) == i % cfg.nx
CellY(cfg, i) == (i \div cfg.nx) % cfg.ny
CellZ(cfg, i) == i \div (cfg.nx * cfg.ny)

\* ThermalEngine::ThermalEngine
ThermalEngine(cfg) ==
    [config_ |-> cfg,
     temperature_ |-> [i \in ThermalCells(cfg) |-> THERMAL_ROOM_TEMP],
     enthalpy_ |-> [i \in ThermalCells(cfg) |-> 0],
     phase_ |-> [i \in ThermalCells(cfg) |-> "GAS"],
     material_id_ |-> [i \in ThermalCells(cfg) |-> 0],
     material_list_ |-> <<"air">>,
     k_ |-> [i \in ThermalCells(cfg) |-> MATERIALS["air"].thermal_conductivity],
     cp_ |-> [i \in ThermalCells(cfg) |-> MATERIALS["air"].specific_heat],
     rho_ |-> [i \in ThermalCells(cfg) |-> MATERIALS["air"].density],
     emissivity_ |-> [i \in ThermalCells(cfg) |-> MATERIALS["air"].emissivity],
     heat_sources_ |-> [i \in ThermalCells(cfg) |-> 0],
     decay_heat_ |-> [i \in ThermalCells(cfg) |-> 0],
     fluid_ux_ |-> [i \in ThermalCells(cfg) |-> 0],
     fluid_uy_ |-> [i \in ThermalCells(cfg) |-> 0]]

\* rho_[i] * cp_[i], J/(m^3 K)
RhoCp(e, i) == MulDiv(e.rho_[i], e.cp_[i], 1000)

\* the neighbour of cell i at offset (ox, oy, oz)
Beside(e, i, ox, oy, oz) ==
    thermal_idx(e.config_, CellX(e.config_, i) + ox, CellY(e.config_, i) + oy,
                CellZ(e.config_, i) + oz)

laplacian(e, i) ==
    TruncDiv(e.temperature_[Beside(e, i, 1, 0, 0)] + e.temperature_[Beside(e, i, -1, 0, 0)]
                + e.temperature_[Beside(e, i, 0, 1, 0)] + e.temperature_[Beside(e, i, 0, -1, 0)]
                - 4 * e.temperature_[i],
             e.config_.dx * e.config_.dx)
    + (IF e.config_.nz > 1 /\ CellZ(e.config_, i) > 0
           /\ CellZ(e.config_, i) < e.config_.nz - 1
       THEN TruncDiv(e.temperature_[Beside(e, i, 0, 0, 1)]
                        + e.temperature_[Beside(e, i, 0, 0, -1)]
                        - 2 * e.temperature_[i],
                     e.config_.dx * e.config_.dx)
       ELSE 0)

\* dT[i] = alpha * laplacian * dt of the first loop, for an inner cell i
conduction_delta(e, i, dt) ==
    TruncDiv(MulDiv(laplacian(e, i) * dt, e.k_[i], 1000), RhoCp(e, i))

step_conduction(e, dt) ==
    [e EXCEPT !.temperature_ =
        [i \in DOMAIN e.temperature_ |->
            e.temperature_[i]
              + (IF i \in InnerCells(e.config_) THEN conduction_delta(e, i, dt) ELSE 0)]]

dTdx(e, i) ==
    IF e.fluid_ux_[i] > 0
    THEN TruncDiv(e.temperature_[i] - e.temperature_[Beside(e, i, -1, 0, 0)], e.config_.dx)
    ELSE TruncDiv(e.temperature_[Beside(e, i, 1, 0, 0)] - e.temperature_[i], e.config_.dx)

dTdy(e, i) ==
    IF e.fluid_uy_[i] > 0
    THEN TruncDiv(e.temperature_[i] - e.temperature_[Beside(e, i, 0, -1, 0)], e.config_.dx)
    ELSE TruncDiv(e.temperature_[Beside(e, i, 0, 1, 0)] - e.temperature_[i], e.config_.dx)

\* dT[i] = -(ux * dTdx + uy * dTdy) * dt of the first loop, for an inner cell i
advection_delta(e, i, dt) ==
    -TruncDiv((e.fluid_ux_[i] * dTdx(e, i) + e.fluid_uy_[i] * dTdy(e, i)) * dt, 1000)

step_advection(e, dt) ==
    [e EXCEPT !.temperature_ =
        [i \in DOMAIN e.temperature_ |->
            e.temperature_[i]
              + (IF i \in InnerCells(e.config_) THEN advection_delta(e, i, dt) ELSE 0)]]

step_sources(e, dt) ==
    [e EXCEPT !.temperature_ =
        [i \in DOMAIN e.temperature_ |->
            IF e.heat_sources_[i] # 0 /\ RhoCp(e, i) > 0
            THEN e.temperature_[i] + MulDiv(e.heat_sources_[i] * dt, 100, RhoCp(e, i))
            ELSE e.temperature_[i]]]

apply_decay_heat(e, dt) ==
    [e EXCEPT !.temperature_ =
        [i \in DOMAIN e.temperature_ |->
            IF e.decay_heat_[i] > 0 /\ RhoCp(e, i) > 0
            THEN e.temperature_[i] + MulDiv(e.decay_heat_[i] * dt, 100, RhoCp(e, i))
            ELSE e.temperature_[i]]]

\* T * T for T in centikelvin, in units of 100 K^2
Square(T) == ((T \div 100) * (T \div 100)) \div 100

\* std::pow(T, 4) in units of 10^6 K^4
Pow4(T) == (Square(T) * Square(T)) \div 100

\* sigma * eps * (T^4 - T_ambient^4), W/m^2
q_rad(e, i) ==
    MulDiv(MulDiv(Pow4(e.temperature_[i]) - Pow4(THERMAL_ROOM_TEMP), STEFAN_BOLTZMANN, 10000),
           e.emissivity_[i], 100)

\* dT[i] of the first loop: 0 where the loop body leaves by continue
radiation_delta(e, i, dt) ==
    IF e.temperature_[i] < e.config_.radiation_threshold THEN 0
    ELSE IF e.emissivity_[i] < 1 THEN 0
    ELSE IF RhoCp(e, i) > 0
         THEN -MulDiv(q_rad(e, i) * dt, 100, RhoCp(e, i) * e.config_.dx)
         ELSE 0

step_radiation(e, dt) ==
    [e EXCEPT !.temperature_ =
        [i \in DOMAIN e.temperature_ |-> e.temperature_[i] + radiation_delta(e, i, dt)]]

\* the material row step_phase_change finds for cell i, or none
PropsOf(e, i) ==
    IF e.material_list_[e.material_id_[i] + 1] \in DOMAIN MATERIALS
    THEN <<MATERIALS[e.material_list_[e.material_id_[i] + 1]]>>
    ELSE <<>>

Melts(props) == props.melting_point > 0 /\ props.latent_heat_fusion > 0
Boils(props) == props.boiling_point > 0 /\ props.latent_heat_vaporization > 0

\* latent heat * rho_[i], J/m^3
LatentVolume(e, i, latent) == MulDiv(e.rho_[i], latent, 1000)

\* the melting block of step_phase_change for one cell c = [T, H, p], with
\* the phase p0 and temperature T0 read at the top of the loop body
melting_block(e, i, props, p0, T0, c) ==
    IF ~Melts(props) THEN c
    ELSE IF p0 = "SOLID" /\ T0 >= props.melting_point
         THEN [T |-> props.melting_point,
               H |-> c.H + MulDiv(T0 - props.melting_point, RhoCp(e, i), 100),
               p |-> "MELTING"]
         ELSE IF p0 = "MELTING" /\ c.H >= LatentVolume(e, i, props.latent_heat_fusion)
              THEN [T |-> c.T, H |-> 0, p |-> "LIQUID"]
              ELSE c

boiling_block(e, i, props, p0, T0, c) ==
    IF ~Boils(props) THEN c
    ELSE IF p0 = "LIQUID" /\ T0 >= props.boiling_point
         THEN [T |-> props.boiling_point,
               H |-> c.H + MulDiv(T0 - props.boiling_point, RhoCp(e, i), 100),
               p |-> "BOILING"]
         ELSE IF p0 = "BOILING" /\ c.H >= LatentVolume(e, i, props.latent_heat_vaporization)
              THEN [T |-> c.T, H |-> 0, p |-> "GAS"]
              ELSE c

\* the loop body with phase_[i] read again before every test instead of the
\* p read at the top
phase_cell_rereading(e, i) ==
    IF PropsOf(e, i) = <<>>
    THEN [T |-> e.temperature_[i], H |-> e.enthalpy_[i], p |-> e.phase_[i]]
    ELSE boiling_block(e, i, PropsOf(e, i)[1],
            melting_block(e, i, PropsOf(e, i)[1],
                melting_block(e, i, PropsOf(e, i)[1], e.phase_[i], e.temperature_[i],
                    [T |-> e.temperature_[i], H |-> e.enthalpy_[i], p |-> e.phase_[i]]).p,
                e.temperature_[i],
                melting_block(e, i, PropsOf(e, i)[1], e.phase_[i], e.temperature_[i],
                    [T |-> e.temperature_[i], H |-> e.enthalpy_[i], p |-> e.phase_[i]])).p,
            e.temperature_[i],
            melting_block(e, i, PropsOf(e, i)[1],
                melting_block(e, i, PropsOf(e, i)[1], e.phase_[i], e.temperature_[i],
                    [T |-> e.temperature_[i], H |-> e.enthalpy_[i], p |-> e.phase_[i]]).p,
                e.temperature_[i],
                melting_block(e, i, PropsOf(e, i)[1], e.phase_[i], e.temperature_[i],
                    [T |-> e.temperature_[i], H |-> e.enthalpy_[i], p |-> e.phase_[i]])))

phase_cell(e, i) ==
    IF PropsOf(e, i) = <<>>
    THEN [T |-> e.temperature_[i], H |-> e.enthalpy_[i], p |-> e.phase_[i]]
    ELSE boiling_block(e, i, PropsOf(e, i)[1], e.phase_[i], e.temperature_[i],
            melting_block(e, i, PropsOf(e, i)[1], e.phase_[i], e.temperature_[i],
                [T |-> e.temperature_[i], H |-> e.enthalpy_[i], p |-> e.phase_[i]]))

step_phase_change(e, dt) ==
    [e EXCEPT !.temperature_ = [i \in DOMAIN e.temperature_ |-> phase_cell(e, i).T],
              !.enthalpy_ = [i \in DOMAIN e.enthalpy_ |-> phase_cell(e, i).H],
              !.phase_ = [i \in DOMAIN e.phase_ |-> phase_cell(e, i).p]]

\* the engine as step() leaves it before step_phase_change
heated(e, dt) ==
    IF e.config_.enable_radiation
    THEN step_radiation(
            apply_decay_heat(step_sources(step_advection(step_conduction(e, dt), dt), dt), dt),
            dt)
    ELSE apply_decay_heat(step_sources(step_advection(step_conduction(e, dt), dt), dt), dt)

thermal_step(e, dt) == step_phase_change(heated(e, dt), dt)

\* std::find(material_list_.begin(), material_list_.end(), name)
FindName(list, name) ==
    IF \E k \in DOMAIN list : list[k] = name
    THEN (CHOOSE k \in DOMAIN list : list[k] = name /\ \A j \in 1 .. k - 1 : list[j] # name) - 1
    ELSE Len(list)

\* ThermalEngine::set_material
thermal_set_material(e, i, material_name) ==
    [e EXCEPT
        !.material_list_ = IF FindName(e.material_list_, material_name) = Len(e.material_list_)
                           THEN Append(e.material_list_, material_name)
                           ELSE e.material_list_,
        !.material_id_[i] = FindName(e.material_list_, material_name) % 256,
        !.k_[i] = IF material_name \in DOMAIN MATERIALS
                  THEN MATERIALS[material_name].thermal_conductivity ELSE e.k_[i],
        !.cp_[i] = IF material_name \in DOMAIN MATERIALS
                   THEN MATERIALS[material_name].specific_heat ELSE e.cp_[i],
        !.rho_[i] = IF material_name \in DOMAIN MATERIALS
                    THEN MATERIALS[material_name].density ELSE e.rho_[i],
        !.emissivity_[i] = IF material_name \in DOMAIN MATERIALS
                           THEN MATERIALS[material_name].emissivity ELSE e.emissivity_[i]]

\* ThermalEngine::set_temperature
thermal_set_temperature(e, i, temp_k) == [e EXCEPT !.temperature_[i] = temp_k]

\* ThermalEngine::add_heat_source
add_heat_source(e, i, watts) ==
    [e EXCEPT !.heat_sources_[i] =
        e.heat_sources_[i]
           + TruncDiv(watts, e.config_.dx * e.config_.dx * e.config_.dx)]

\* ThermalEngine::set_radioactive_ore
set_radioactive_ore(e, i, watts_per_m3) == [e EXCEPT !.decay_heat_[i] = watts_per_m3]

\* ThermalEngine::set_fluid_velocity
set_fluid_velocity(e, i, ux, uy) ==
    [e EXCEPT !.fluid_ux_[i] = ux, !.fluid_uy_[i] = uy]

\* The state of the thermal specification: thermal.e is the engine,
\* thermal.pre the engine before the last operation, thermal.op that
\* operation, thermal.cell and thermal.name its arguments, thermal.calls and
\* thermal.steps the calls and the steps made so far.  Three history
\* fields follow each cell: frozen, the cell was given a material that melts
\* at a temperature below its melting point; absorbed, the heat per volume it
\* has received at or above the melting point since; melted, its phase has
\* been LIQUID since.

Centre(cfg) == thermal_idx(cfg, 1, 1, 0)
Edge(cfg) == thermal_idx(cfg, 1, 0, 0)

MaterialNames == {"air", "ice", "granite", "unobtainium"}
Temperatures == {26315, THERMAL_ROOM_TEMP, 60000}

Frozen(e, i) ==
    /\ PropsOf(e, i) # <<>>
    /\ Melts(PropsOf(e, i)[1])
    /\ e.temperature_[i] < PropsOf(e, i)[1].melting_point

InitThermal ==
    /\ InitChunks({CHOOSE c \in SmallConfigs : TRUE}, {<<>>})
    /\ coord = <<>>
    /\ lod = <<>>
    /\ lbm = <<>>
    /\ \E cfg \in ThermalConfigs :
          thermal = [e |-> ThermalEngine(cfg), pre |-> ThermalEngine(cfg),
                     op |-> "init", cell |-> 0, name |-> "air", steps |-> 0, calls |-> 0,
                     frozen |-> [i \in ThermalCells(cfg) |-> FALSE],
                     absorbed |-> [i \in ThermalCells(cfg) |-> 0],
                     melted |-> [i \in ThermalCells(cfg) |-> FALSE]]

\* the history of cell i starts again when the caller places it
Placed(e2, i, op, name) ==
    /\ thermal.calls < MaxThermalCalls
    /\ thermal' = [thermal EXCEPT
          !.calls = thermal.calls + 1,
          !.e = e2, !.pre = thermal.e, !.op = op, !.cell = i, !.name = name,
          !.frozen[i] = Frozen(e2, i), !.absorbed[i] = 0, !.melted[i] = FALSE]
    /\ UNCHANGED <<chunkVars, coord, lod, lbm>>

Touched(e2, i, op) ==
    /\ thermal.calls < MaxThermalCalls
    /\ thermal' = [thermal EXCEPT !.e = e2, !.pre = thermal.e, !.op = op, !.cell = i,
                                  !.calls = thermal.calls + 1]
    /\ UNCHANGED <<chunkVars, coord, lod, lbm>>

ThermalSetMaterial(i, name) ==
    Placed(thermal_set_material(thermal.e, i, name), i, "set_material", name)

ThermalSetTemperature(i, temp_k) ==
    Placed(thermal_set_temperature(thermal.e, i, temp_k), i, "set_temperature", thermal.name)

AddHeatSource(i, watts) ==
    /\ thermal.e.heat_sources_[i] + watts <= 2 * HeaterWatts
    /\ Touched(add_heat_source(thermal.e, i, watts), i, "add_heat_source")

SetRadioactiveOre(i, watts_per_m3) ==
    Touched(set_radioactive_ore(thermal.e, i, watts_per_m3), i, "set_radioactive_ore")

SetFluidVelocity(i, ux, uy) ==
    Touched(set_fluid_velocity(thermal.e, i, ux, uy), i, "set_fluid_velocity")

\* the heat per volume cell i received at or above its melting point while
\* the engine went from e to h
Received(e, h, i) ==
    IF h.temperature_[i] >= PropsOf(e, i)[1].melting_point
    THEN MulDiv(h.temperature_[i]
                  - (IF e.temperature_[i] >= PropsOf(e, i)[1].melting_point
                     THEN e.temperature_[i] ELSE PropsOf(e, i)[1].melting_point),
                RhoCp(e, i), 100)
    ELSE 0

\* step() with h the engine before step_phase_change and e2 the engine after
Stepped(h, e2) ==
    /\ \A i \in DOMAIN h.temperature_ : h.temperature_[i] <= MaxTemperature
    /\ thermal' = [thermal EXCEPT
          !.e = e2, !.pre = thermal.e, !.op = "step",
          !.steps = thermal.steps + 1,
          !.absorbed = [i \in DOMAIN thermal.absorbed |->
                           IF thermal.frozen[i]
                           THEN thermal.absorbed[i] + Received(thermal.e, h, i)
                           ELSE thermal.absorbed[i]],
          !.melted = [i \in DOMAIN thermal.melted |->
                         thermal.melted[i] \/ (thermal.frozen[i] /\ e2.phase_[i] = "LIQUID")]]
    /\ UNCHANGED <<chunkVars, coord, lod, lbm>>

ThermalStep(dt) ==
    /\ thermal.steps < MaxThermalSteps
    /\ \A i \in DOMAIN thermal.e.temperature_ :
          apply_decay_heat(step_sources(thermal.e, dt), dt).temperature_[i] <= MaxTemperature
    /\ Stepped(heated(thermal.e, dt), thermal_step(thermal.e, dt))

NextThermal ==
    \/ \E name \in MaterialNames : ThermalSetMaterial(Centre(thermal.e.config_), name)
    \/ \E i \in {Centre(thermal.e.config_), Edge(thermal.e.config_)}, temp_k \in Temperatures :
          ThermalSetTemperature(i, temp_k)
    \/ AddHeatSource(Centre(thermal.e.config_), HeaterWatts)
    \/ \E w \in {0, HeaterWatts \div 4} : SetRadioactiveOre(Centre(thermal.e.config_), w)
    \/ \E u \in {<<0, 0>>, <<500, -500>>} :
          SetFluidVelocity(Centre(thermal.e.config_), u[1], u[2])
    \/ \E dt \in {1} : ThermalStep(dt)

SpecThermal == InitThermal /\ [][NextThermal]_vars

\* enum class Phase, in the order of its values
Phases == <<"SOLID", "MELTING", "LIQUID", "BOILING", "GAS">>

PhaseRank(p) == CHOOSE k \in DOMAIN Phases : Phases[k] = p

\* SpecPhase: step_phase_change on a cell found in any phase.  The engine
\* constructs every cell GAS and has no operation that sets a phase, so
\* SpecThermal never leaves GAS; here the centre cell starts in any of the
\* five phases, and the caller places ice or CO2 ice there, sets its
\* temperature (up to 900 K, where both have more than their latent heat to
\* absorb), heats it and steps.
InitPhase ==
    /\ InitChunks({CHOOSE c \in SmallConfigs : TRUE}, {<<>>})
    /\ coord = <<>>
    /\ lod = <<>>
    /\ lbm = <<>>
    /\ \E cfg \in ThermalConfigs, p \in {Phases[k] : k \in DOMAIN Phases} :
          thermal = [e |-> [ThermalEngine(cfg) EXCEPT !.phase_[Centre(cfg)] = p],
                     pre |-> [ThermalEngine(cfg) EXCEPT !.phase_[Centre(cfg)] = p],
                     op |-> "init", cell |-> 0, name |-> "air", steps |-> 0, calls |-> 0,
                     frozen |-> [i \in ThermalCells(cfg) |-> FALSE],
                     absorbed |-> [i \in ThermalCells(cfg) |-> 0],
                     melted |-> [i \in ThermalCells(cfg) |-> FALSE]]

NextPhase ==
    \/ \E name \in {"ice", "co2_ice"} : ThermalSetMaterial(Centre(thermal.e.config_), name)
    \/ \E temp_k \in Temperatures \cup {90000} :
          ThermalSetTemperature(Centre(thermal.e.config_), temp_k)
    \/ AddHeatSource(Centre(thermal.e.config_), HeaterWatts)
    \/ \E dt \in {1} : ThermalStep(dt)

SpecPhase == InitPhase /\ [][NextPhase]_vars

----------------------------------------------------------------------------
(* fluids::LBMEngine.  The engine's doubles are exact fractions <<n, d>>   *)
(* with d > 0, in lowest terms: the populations, densities and velocities  *)
(* of the fields below are sums and products of the lattice weights, so    *)
(* every operation of step() is exact, and 1e-10, which                    *)
(* compute_macroscopic adds to the density before it divides, is below the *)
(* resolution of the fields.  std::sqrt is taken to 1/100.                  *)

RECURSIVE Gcd(_, _)
Gcd(a, b) ==
    IF b = 0 THEN a
    ELSE IF a % b = 0 THEN b
    ELSE Gcd(a % b, b % (a % b))

\* n / d in lowest terms, d > 0
Ratio(n, d) ==
    IF n = 0 THEN <<0, 1>>
    ELSE <<n \div Gcd(Abs(n), d), d \div Gcd(Abs(n), d)>>

RZero == <<0, 1>>
ROne == <<1, 1>>

\* a + b over the least common denominator l
RSum(a, b, l) == Ratio(a[1] * (l \div a[2]) + b[1] * (l \div b[2]), l)

RAdd(a, b) ==
    IF a[1] = 0 THEN b
    ELSE IF b[1] = 0 THEN a
    ELSE RSum(a, b, (a[2] \div Gcd(a[2], b[2])) * b[2])
RNeg(a) == <<-a[1], a[2]>>
RSub(a, b) == RAdd(a, RNeg(b))

\* a * b with the common factors g = gcd(|a.n|, b.d) and h = gcd(|b.n|, a.d)
\* taken out before the products
RProduct(a, b, g, h) == <<(a[1] \div g) * (b[1] \div h), (a[2] \div h) * (b[2] \div g)>>

RMul(a, b) ==
    IF a[1] = 0 \/ b[1] = 0 THEN RZero
    ELSE RProduct(a, b, Gcd(Abs(a[1]), b[2]), Gcd(Abs(b[1]), a[2]))

\* 1 / a, a # 0
RInv(a) == IF a[1] > 0 THEN <<a[2], a[1]>> ELSE <<-a[2], -a[1]>>

\* k * a for an integer k
RScale(k, a) == RMul(<<k, 1>>, a)

\* the lattice: weights, velocities and opposite directions, indexed 0 .. 18
Directions == 0 .. 18

W ==
    [q \in Directions |->
        IF q = 0 THEN <<1, 3>> ELSE IF q <= 6 THEN <<1, 18>> ELSE <<1, 36>>]

CX == [q \in Directions |-> <<0, 1, -1, 0, 0, 0, 0, 1, -1, 1, -1, 1, -1, 1, -1, 0, 0, 0, 0>>[q + 1]]
CY == [q \in Directions |-> <<0, 0, 0, 1, -1, 0, 0, 1, 1, -1, -1, 0, 0, 0, 0, 1, -1, 1, -1>>[q + 1]]
CZ == [q \in Directions |-> <<0, 0, 0, 0, 0, 1, -1, 0, 0, 0, 0, 1, 1, -1, -1, 1, 1, -1, -1>>[q + 1]]
OPP == [q \in Directions |-> <<0, 2, 1, 4, 3, 6, 5, 10, 9, 8, 7, 14, 13, 12, 11, 18, 17, 16, 15>>[q + 1]]

\* LBMConfig: a periodic row of LbmWidth cells; stream() alone is also run on
\* grids of up to MaxGrid cells a side
LbmWidth == 4
MaxGrid == 3

LbmConfigs ==
    {[nx |-> LbmWidth, ny |-> 1, nz |-> 1, enable_les |-> les,
      smagorinsky_cs |-> <<1, 10>>, collision_mode |-> mode, dx |-> ROne,
      use_gpu |-> gpu] :
        les \in BOOLEAN, mode \in {"BGK", "MRT", "REGULARIZED"}, gpu \in BOOLEAN}

\* cuda::LBMDeviceBuffers before allocate: the device arrays carry the names
\* of the host fields they mirror
NoDeviceBuffers ==
    [initialized |-> FALSE, n_cells |-> 0, f_ |-> <<>>, rho_ |-> <<>>,
     ux_ |-> <<>>, uy_ |-> <<>>, uz_ |-> <<>>, solid_ |-> <<>>]

lbm_idx(cfg, x, y, z) == x + cfg.nx * (y + cfg.ny * z)

LbmCells(cfg) == 0 .. cfg.nx * cfg.ny * cfg.nz - 1

\* LBMEngine::LBMEngine
LBMEngine(cfg) ==
    [config_ |-> cfg,
     f_ |-> [i \in LbmCells(cfg) |-> [q \in Directions |-> RZero]],
     rho_ |-> [i \in LbmCells(cfg) |-> ROne],
     ux_ |-> [i \in LbmCells(cfg) |-> RZero],
     uy_ |-> [i \in LbmCells(cfg) |-> RZero],
     uz_ |-> [i \in LbmCells(cfg) |-> RZero],
     solid_ |-> [i \in LbmCells(cfg) |-> 0],
     nu_t_ |-> IF cfg.enable_les THEN [i \in LbmCells(cfg) |-> RZero] ELSE <<>>,
     tau_ |-> [q \in Directions |-> IF q \in {1, 2} THEN <<11, 10>> ELSE ROne],
     gpu_buffers_ |-> NoDeviceBuffers,
     gpu_constant_uploaded_ |-> FALSE]

\* LBMEngine::initialize_uniform (the species fractions are not part of the model)
initialize_uniform(e) ==
    [e EXCEPT !.rho_ = [i \in DOMAIN e.rho_ |-> ROne],
              !.ux_ = [i \in DOMAIN e.ux_ |-> RZero],
              !.uy_ = [i \in DOMAIN e.uy_ |-> RZero],
              !.uz_ = [i \in DOMAIN e.uz_ |-> RZero],
              !.f_ = [i \in DOMAIN e.f_ |-> [q \in Directions |-> W[q]]]]

\* LBMEngine::set_solid
set_solid(e, i, is_solid) == [e EXCEPT !.solid_[i] = IF is_solid THEN 1 ELSE 0]

\* the last direction of the loops over q
LastQ == 18

\* the sum of terms[lo .. hi]; the sums are exact, so the order in which the
\* loop adds them does not show
RECURSIVE Total(_, _, _)
Total(terms, lo, hi) ==
    IF lo = hi THEN terms[lo]
    ELSE RAdd(Total(terms, lo, (lo + hi) \div 2), Total(terms, (lo + hi) \div 2 + 1, hi))

\* the sum of terms[q] over the directions q
Sum(terms) == IF DOMAIN terms = {} THEN RZero ELSE Total(terms, 0, LastQ)

\* the sum over q of C[q] * fc[q]
Moment(fc, C) == Sum([q \in Directions |-> RScale(C[q], fc[q])])

\* the sum over the moving directions only, the rest population left out
Density_without_rest(fc) == Total(fc, 1, LastQ)

\* the sum over q of fc[q]
Density(fc) == Sum(fc)

\* v * (1.0 / (r + 1e-10)); every field of the model has r > 0 where v # 0
Velocity(v, r) == IF v[1] = 0 THEN RZero ELSE RMul(v, RInv(r))

compute_macroscopic(e) ==
    [e EXCEPT
        !.rho_ = [i \in DOMAIN e.rho_ |->
                    IF e.solid_[i] # 0 THEN e.rho_[i] ELSE Density(e.f_[i])],
        !.ux_ = [i \in DOMAIN e.ux_ |->
                    IF e.solid_[i] # 0 THEN e.ux_[i]
                    ELSE Velocity(Moment(e.f_[i], CX), Density(e.f_[i]))],
        !.uy_ = [i \in DOMAIN e.uy_ |->
                    IF e.solid_[i] # 0 THEN e.uy_[i]
                    ELSE Velocity(Moment(e.f_[i], CY), Density(e.f_[i]))],
        !.uz_ = [i \in DOMAIN e.uz_ |->
                    IF e.solid_[i] # 0 THEN e.uz_[i]
                    ELSE Velocity(Moment(e.f_[i], CZ), Density(e.f_[i]))]]

\* cu = CX[q] * ux + CY[q] * uy + CZ[q] * uz
cu(q, ux, uy, uz) ==
    RAdd(RAdd(RScale(CX[q], ux), RScale(CY[q], uy)), RScale(CZ[q], uz))

\* u2_term = 1.0 - 1.5 * (ux * ux + uy * uy + uz * uz)
u2_term(ux, uy, uz) ==
    RSub(ROne, RMul(<<3, 2>>, RAdd(RAdd(RMul(ux, ux), RMul(uy, uy)), RMul(uz, uz))))

\* W[q] * r * (u2_term + 3.0 * cu + 4.5 * cu * cu), with c = cu
f_eq_of(q, r, u2t, c) ==
    RMul(RMul(W[q], r), RAdd(RAdd(u2t, RScale(3, c)), RMul(<<9, 2>>, RMul(c, c))))

f_eq(e, i, q) ==
    f_eq_of(q, e.rho_[i], u2_term(e.ux_[i], e.uy_[i], e.uz_[i]),
            cu(q, e.ux_[i], e.uy_[i], e.uz_[i]))

\* f_eq of every cell and direction, as collide_bgk, collide_mrt and
\* compute_turbulent_viscosity compute it from the macroscopic fields
equilibrium(e) == [i \in DOMAIN e.f_ |-> [q \in Directions |-> f_eq(e, i, q)]]

\* f_[q][i] += omega * (f_eq - f_[q][i])
relax(fq, feq, omega) == RAdd(fq, RMul(omega, RSub(feq, fq)))

collide_bgk(e, eq) ==
    [e EXCEPT !.f_ =
        [i \in DOMAIN e.f_ |->
            IF e.solid_[i] # 0 THEN e.f_[i]
            ELSE [q \in Directions |-> relax(e.f_[i][q], eq[i][q], RInv(e.tau_[0]))]]]

\* omega_nu = 1.0 / (3.0 * nu_eff + 0.5), nu_eff = 0.1 (+ nu_t[i] with LES)
omega_nu(e, i) ==
    RInv(RAdd(RScale(3, IF e.config_.enable_les THEN RAdd(<<1, 10>>, e.nu_t_[i])
                        ELSE <<1, 10>>),
              <<1, 2>>))

\* double omega = (q < 3) ? 1.0 : omega_nu
omega_q(e, i, q) == IF q < 3 THEN ROne ELSE omega_nu(e, i)

collide_mrt(e, eq) ==
    [e EXCEPT !.f_ =
        [i \in DOMAIN e.f_ |->
            IF e.solid_[i] # 0 THEN e.f_[i]
            ELSE [q \in Directions |-> relax(e.f_[i][q], eq[i][q], omega_q(e, i, q))]]]

\* size_t is 64 bits wide: four limbs of 16 bits, the least significant first
LimbBase == 65536
Limbs == 1 .. 4

\* static_cast<size_t>(c) of an int c >= -LimbBase: the sign is extended
CastSizeT(c) ==
    IF c >= 0 THEN [k \in Limbs |-> IF k = 1 THEN c % LimbBase
                                    ELSE IF k = 2 THEN c \div LimbBase ELSE 0]
    ELSE [k \in Limbs |-> IF k = 1 THEN LimbBase + c ELSE LimbBase - 1]

\* the carry out of limb k of a + b, and the borrow out of limb k of a - b
RECURSIVE Carry(_, _, _)
Carry(a, b, k) == IF k = 0 THEN 0 ELSE (a[k] + b[k] + Carry(a, b, k - 1)) \div LimbBase

RECURSIVE Borrow(_, _, _)
Borrow(a, b, k) == IF k = 0 THEN 0 ELSE IF a[k] - b[k] - Borrow(a, b, k - 1) < 0 THEN 1 ELSE 0

\* a + b and a - b on size_t: modulo 2^64
SizeTPlus(a, b) == [k \in Limbs |-> (a[k] + b[k] + Carry(a, b, k - 1)) % LimbBase]
SizeTMinus(a, b) == [k \in Limbs |-> (a[k] - b[k] - Borrow(a, b, k - 1)) % LimbBase]

\* a % n on size_t for 0 < n < 2^15, from the most significant limb down
RECURSIVE RemFrom(_, _, _)
RemFrom(a, n, k) ==
    IF k > 4 THEN 0 ELSE (RemFrom(a, n, k + 1) * LimbBase + a[k]) % n

SizeTRem(a, n) == RemFrom(a, n, 1)

\* (static_cast<size_t>(x) - static_cast<size_t>(c)) % n, without the + n
source_axis_unbiased(x, n, c) ==
    SizeTRem(SizeTMinus(CastSizeT(x), CastSizeT(c)), n)

\* (static_cast<size_t>(x) + n - static_cast<size_t>(c)) % n
source_axis(x, n, c) ==
    SizeTRem(SizeTMinus(SizeTPlus(CastSizeT(x), CastSizeT(n)), CastSizeT(c)), n)

\* source_axis for every axis length of the model, computed once
SourceAxis ==
    [n \in 1 .. (IF LbmWidth > MaxGrid THEN LbmWidth ELSE MaxGrid) |->
        [x \in 0 .. n - 1 |-> [c \in {-1, 0, 1} |-> source_axis(x, n, c)]]]

\* the cell population q of cell i is pulled from
source_cell(cfg, i, q) ==
    lbm_idx(cfg,
            SourceAxis[cfg.nx][i % cfg.nx][CX[q]],
            SourceAxis[cfg.ny][(i \div cfg.nx) % cfg.ny][CY[q]],
            SourceAxis[cfg.nz][i \div (cfg.nx * cfg.ny)][CZ[q]])

stream(e) ==
    [e EXCEPT !.f_ =
        [i \in DOMAIN e.f_ |->
            [q \in Directions |-> e.f_[source_cell(e.config_, i, q)][q]]]]

\* std::swap(f_[q][i], f_[OPP[q]][i])
swap(fc, q, o) == [fc EXCEPT ![q] = fc[o], ![o] = fc[q]]

\* for (q = from; q < 19; ++q) swap(q, OPP[q]), on the populations of one cell
RECURSIVE bounce_back(_, _)
bounce_back(fc, from) ==
    IF from > LastQ THEN fc ELSE bounce_back(swap(fc, from, OPP[from]), from + 1)

apply_boundary_conditions(e) ==
    [e EXCEPT !.f_ =
        [i \in DOMAIN e.f_ |-> IF e.solid_[i] = 0 THEN e.f_[i] ELSE bounce_back(e.f_[i], 1)]]

\* f_neq * f_neq
f_neq_sq(fq, feq) == RMul(RSub(fq, feq), RSub(fq, feq))

\* S_mag_sq: the sum over q of (f_[q][i] - f_eq)^2
S_mag_sq(e, i, eq) ==
    Sum([q \in Directions |-> f_neq_sq(e.f_[i][q], eq[i][q])])

\* S_mag_sq of every cell, taken when LES is enabled
strain(e, eq) ==
    IF e.config_.enable_les THEN [i \in DOMAIN e.nu_t_ |-> S_mag_sq(e, i, eq)] ELSE <<>>

\* the roots taken stay below MaxRoot / 100
MaxRoot == 1000

\* the largest k with k * k <= v
Isqrt(v) == CHOOSE k \in 0 .. MaxRoot : k * k <= v /\ (v < (k + 1) * (k + 1) \/ k = MaxRoot)

\* floor(10000 * s) for s >= 0, in two stages of 100
Floor4(s) ==
    100 * ((100 * s[1]) \div s[2])
      + (100 * ((100 * s[1]) % s[2])) \div s[2]

\* std::sqrt(s) to 1/100
RSqrt(s) == IF s[1] = 0 THEN RZero ELSE Ratio(Isqrt(Floor4(s)), 100)

compute_turbulent_viscosity(e, S) ==
    [e EXCEPT !.nu_t_ =
        [i \in DOMAIN e.nu_t_ |->
            RMul(RMul(RMul(e.config_.smagorinsky_cs, e.config_.smagorinsky_cs),
                      RMul(e.config_.dx, e.config_.dx)),
                 RSqrt(S[i]))]]

\* the collision step() selects
collide(e, eq) ==
    IF e.config_.collision_mode = "BGK" THEN collide_bgk(e, eq) ELSE collide_mrt(e, eq)

\* compute_turbulent_viscosity() when LES is enabled
turbulence(e, S) == IF e.config_.enable_les THEN compute_turbulent_viscosity(e, S) ELSE e

\* The accelerator path.  The build without CUDA links lbm_cuda_stubs.cpp:
\* allocate leaves the buffers uninitialized and every other call does
\* nothing.  The kernels of the CUDA build are not among the sources; there
\* allocate succeeds, copy_to_device stores the macroscopic fields and the
\* solid flags and sets the device populations to their equilibrium,
\* launch_collide_stream relaxes towards equilibrium at omega and pulls, and
\* copy_from_device returns the macroscopic fields.

\* cuda::LBMDeviceBuffers::allocate
allocate(buf, cells, cuda) == [buf EXCEPT !.n_cells = cells, !.initialized = cuda]

\* cuda::copy_to_device(buf, rho_, ux_, uy_, uz_, solid_)
copy_to_device(buf, rho, ux, uy, uz, solid) ==
    [buf EXCEPT !.rho_ = rho, !.ux_ = ux, !.uy_ = uy, !.uz_ = uz, !.solid_ = solid,
                !.f_ = [i \in DOMAIN rho |->
                          [q \in Directions |->
                              f_eq_of(q, rho[i], u2_term(ux[i], uy[i], uz[i]),
                                      cu(q, ux[i], uy[i], uz[i]))]]]

\* cuda::copy_from_device(buf, rho_, ux_, uy_, uz_)
copy_from_device(e, buf) ==
    [e EXCEPT !.rho_ = buf.rho_, !.ux_ = buf.ux_, !.uy_ = buf.uy_, !.uz_ = buf.uz_]

\* cuda::launch_collide_stream(buf, omega, nx, ny, nz)
launch_collide_stream(buf, omega, cfg) ==
    IF ~buf.initialized THEN buf
    ELSE [buf EXCEPT !.f_ =
            [i \in DOMAIN buf.f_ |->
                [q \in Directions |->
                    IF buf.solid_[source_cell(cfg, i, q)] # 0
                    THEN buf.f_[source_cell(cfg, i, q)][q]
                    ELSE relax(buf.f_[source_cell(cfg, i, q)][q],
                               f_eq(buf, source_cell(cfg, i, q), q), omega)]]]

\* cuda::launch_compute_macroscopic(buf, nx, ny, nz)
launch_compute_macroscopic(buf) ==
    IF ~buf.initialized THEN buf ELSE compute_macroscopic(buf)

\* LBMEngine::synchronize_to_device
synchronize_to_device(e) ==
    IF e.config_.use_gpu /\ e.gpu_buffers_.initialized
    THEN [e EXCEPT !.gpu_buffers_ =
            copy_to_device(@, e.rho_, e.ux_, e.uy_, e.uz_, e.solid_)]
    ELSE e

\* LBMEngine::synchronize_to_host
synchronize_to_host(e) ==
    IF e.config_.use_gpu /\ e.gpu_buffers_.initialized
    THEN copy_from_device(e, e.gpu_buffers_)
    ELSE e

\* if (!gpu_buffers_.initialized) { allocate; upload_constants; synchronize_to_device }
ensure_device(e, cuda) ==
    IF e.gpu_buffers_.initialized THEN e
    ELSE synchronize_to_device(
            [e EXCEPT !.gpu_buffers_ =
                        allocate(@, Cardinality(LbmCells(e.config_)), cuda),
                      !.gpu_constant_uploaded_ = TRUE])

\* the accelerator branch of step(): the two launches on the buffers d
launch(d, cfg, omega) == launch_compute_macroscopic(launch_collide_stream(d, omega, cfg))

step_gpu(e, cuda) ==
    [ensure_device(e, cuda) EXCEPT
        !.gpu_buffers_ = launch(ensure_device(e, cuda).gpu_buffers_, e.config_, RInv(e.tau_[0]))]

\* The state of the fluid specification: lbm.e is the engine, lbm.pre the
\* engine before the last operation, lbm.col the engine as the last step()
\* handed it to stream(), lbm.mid as it handed it to
\* apply_boundary_conditions, lbm.op the last operation,
\* lbm.steps the steps made since the field that step() advances was last set
\* (initialize_uniform does not reach the device buffers) and lbm.uniform
\* whether initialize_uniform has set it; lbm.cuda tells whether the build has
\* the CUDA kernels, and lbm.host is the engine that the host sequence of the
\* last step() makes of lbm.pre.  The engine has no operation that writes
\* one population, and the properties of step() are stated for any
\* distribution field: the field the engine starts with is the constructed
\* one or the lattice weights with one population of one cell raised by 1.

MaxLbmSteps == 2
MaxTerm == 200
MaxPulls == 3

PerturbedCells == {0, 1}
PerturbedDirections == {0, 1}
WallCells == {1, 3}

Perturbed(cfg, c, p) ==
    [i \in LbmCells(cfg) |->
        [q \in Directions |-> IF i = c /\ q = p THEN RAdd(W[q], ROne) ELSE W[q]]]

InitialFields(cfg, cells) ==
    {LBMEngine(cfg).f_} \cup {Perturbed(cfg, c, p) : c \in cells, p \in PerturbedDirections}

\* every population is a fraction of terms up to MaxTerm
Fits(e) ==
    {<<i, q>> \in (DOMAIN e.f_) \X Directions :
        Abs(e.f_[i][q][1]) > MaxTerm \/ e.f_[i][q][2] > MaxTerm} = {}

\* an engine of one of the configurations cfgs, in a build with or without
\* the CUDA kernels, with the constructed field or one perturbed in cells
InitEngine(cfgs, builds, cells) ==
    /\ InitChunks({CHOOSE c \in SmallConfigs : TRUE}, {<<>>})
    /\ coord = <<>>
    /\ lod = <<>>
    /\ thermal = <<>>
    /\ \E cfg \in cfgs, cuda \in builds : \E field \in InitialFields(cfg, cells) :
          lbm = [e |-> [LBMEngine(cfg) EXCEPT !.f_ = field],
                 pre |-> [LBMEngine(cfg) EXCEPT !.f_ = field],
                 col |-> [LBMEngine(cfg) EXCEPT !.f_ = field],
                 mid |-> [LBMEngine(cfg) EXCEPT !.f_ = field],
                 host |-> [LBMEngine(cfg) EXCEPT !.f_ = field],
                 op |-> "init", steps |-> 0, uniform |-> FALSE, cuda |-> cuda]

InitLbm == InitEngine({cfg \in LbmConfigs : ~cfg.use_gpu}, {FALSE}, PerturbedCells)

InitializeUniform ==
    /\ lbm' = [lbm EXCEPT !.e = initialize_uniform(lbm.e), !.pre = lbm.e,
                          !.op = "initialize_uniform",
                          !.steps = IF lbm.e.gpu_buffers_.initialized THEN @ ELSE 0,
                          !.uniform = TRUE]
    /\ UNCHANGED <<chunkVars, coord, lod, thermal>>

SetSolid(i, is_solid) ==
    /\ lbm' = [lbm EXCEPT !.e = set_solid(lbm.e, i, is_solid), !.pre = lbm.e,
                          !.op = "set_solid"]
    /\ UNCHANGED <<chunkVars, coord, lod, thermal>>

\* step(), with c the engine after the collision, s the engine after
\* stream() and h the engine after apply_boundary_conditions()
LbmStepped(c, s, h) ==
    /\ lbm' = [lbm EXCEPT !.e = IF lbm.e.config_.use_gpu
                                THEN step_gpu(lbm.e, lbm.cuda) ELSE h,
                          !.pre = lbm.e, !.col = c, !.mid = s, !.host = h,
                          !.op = "step", !.steps = lbm.steps + 1]
    /\ UNCHANGED <<chunkVars, coord, lod, thermal>>

\* LBMEngine::step, one stage after the other: m has the macroscopic fields,
\* eq the equilibrium populations, S the strain magnitudes, t the turbulent
\* viscosity, c the collided and s the streamed populations; with use_gpu the
\* step is made on the device buffers instead
LbmStep ==
    /\ lbm.steps < MaxLbmSteps
    /\ Fits(lbm.e)
    /\ lbm.e.gpu_buffers_.initialized => Fits(lbm.e.gpu_buffers_)
    /\ \E m \in {compute_macroscopic(lbm.e)} :
       \E eq \in {equilibrium(m)} :
       \E S \in {strain(m, eq)} :
       \E t \in {turbulence(m, S)} :
       \E c \in {collide(t, eq)} :
       \E s \in {stream(c)} :
          LbmStepped(c, s, apply_boundary_conditions(s))

SynchronizeToDevice ==
    /\ lbm' = [lbm EXCEPT !.e = synchronize_to_device(lbm.e), !.pre = lbm.e,
                          !.op = "synchronize_to_device"]
    /\ UNCHANGED <<chunkVars, coord, lod, thermal>>

SynchronizeToHost ==
    /\ lbm' = [lbm EXCEPT !.e = synchronize_to_host(lbm.e), !.pre = lbm.e,
                          !.op = "synchronize_to_host"]
    /\ UNCHANGED <<chunkVars, coord, lod, thermal>>

NextLbm ==
    \/ InitializeUniform
    \/ \E i \in WallCells, is_solid \in BOOLEAN : SetSolid(i, is_solid)
    \/ LbmStep

\* stream() alone
Stream ==
    /\ lbm.steps < MaxPulls
    /\ lbm' = [lbm EXCEPT !.e = stream(lbm.e), !.pre = lbm.e, !.op = "stream",
                          !.steps = lbm.steps + 1]
    /\ UNCHANGED <<chunkVars, coord, lod, thermal>>

\* SpecLbm: engines constructed without use_gpu
SpecLbm == InitLbm /\ [][NextLbm]_vars

\* SpecPull: stream() on grids of up to MaxGrid cells a side, every
\* population of the field with a value of its own
GridConfigs ==
    {[nx |-> nx, ny |-> ny, nz |-> nz, enable_les |-> FALSE,
      smagorinsky_cs |-> <<1, 10>>, collision_mode |-> "BGK", dx |-> ROne,
      use_gpu |-> FALSE] : nx \in 1 .. MaxGrid, ny \in 1 .. MaxGrid, nz \in 1 .. MaxGrid}

Tagged(cfg) == [i \in LbmCells(cfg) |-> [q \in Directions |-> <<(LastQ + 1) * i + q + 1, 1>>]]

InitPull ==
    /\ InitChunks({CHOOSE c \in SmallConfigs : TRUE}, {<<>>})
    /\ coord = <<>>
    /\ lod = <<>>
    /\ thermal = <<>>
    /\ \E cfg \in GridConfigs :
          lbm = [e |-> [LBMEngine(cfg) EXCEPT !.f_ = Tagged(cfg)],
                 pre |-> [LBMEngine(cfg) EXCEPT !.f_ = Tagged(cfg)],
                 col |-> [LBMEngine(cfg) EXCEPT !.f_ = Tagged(cfg)],
                 mid |-> [LBMEngine(cfg) EXCEPT !.f_ = Tagged(cfg)],
                 host |-> [LBMEngine(cfg) EXCEPT !.f_ = Tagged(cfg)],
                 op |-> "init", steps |-> 0, uniform |-> FALSE, cuda |-> FALSE]

SpecPull == InitPull /\ [][Stream]_vars

InitGpu ==
    \/ InitEngine({cfg \in LbmConfigs : cfg.use_gpu}, {FALSE}, PerturbedCells)
    \/ InitEngine({cfg \in LbmConfigs :
                      cfg.use_gpu /\ ~cfg.enable_les /\ cfg.collision_mode = "BGK"},
                  {TRUE}, {})

NextGpu ==
    \/ InitializeUniform
    \/ \E i \in WallCells, is_solid \in BOOLEAN : SetSolid(i, is_solid)
    \/ LbmStep
    \/ SynchronizeToDevice
    \/ SynchronizeToHost

\* SpecGpu: engines constructed with use_gpu, in the build that links the
\* stubs and, from the constructed field, in the CUDA build
SpecGpu == InitGpu /\ [][NextGpu]_vars

----------------------------------------------------------------------------
(* The data-parallel passes.  A loop under `#pragma omp parallel for` hands *)
(* its iterations to the worker threads in no fixed order and ends when     *)
(* every iteration has run.  A run r of a pass has r.e, the engine's        *)
(* memory; r.tmp, the second buffer of the pass (f_tmp_ of stream(),        *)
(* temp_buffer_ of the thermal passes); r.start, the engine when the pass   *)
(* began; r.pass, the pass; r.stage, the loop of the pass that is running;  *)
(* and r.todo, the iterations of that loop that have not run yet.           *)

LbmPasses ==
    {"compute_macroscopic", "collide_bgk", "collide_mrt", "stream",
     "apply_boundary_conditions"}

ThermalPasses == {"step_conduction", "step_advection", "step_radiation"}

\* the loop body of compute_macroscopic for cell i
macroscopic_body(r, i) ==
    IF r.e.solid_[i] # 0 THEN r
    ELSE [r EXCEPT !.e.rho_[i] = Density(r.e.f_[i]),
                   !.e.ux_[i] = Velocity(Moment(r.e.f_[i], CX), Density(r.e.f_[i])),
                   !.e.uy_[i] = Velocity(Moment(r.e.f_[i], CY), Density(r.e.f_[i])),
                   !.e.uz_[i] = Velocity(Moment(r.e.f_[i], CZ), Density(r.e.f_[i]))]

\* the loop bodies of collide_bgk and collide_mrt for cell i
collide_bgk_body(r, i) ==
    IF r.e.solid_[i] # 0 THEN r
    ELSE [r EXCEPT !.e.f_[i] =
            [q \in Directions |-> relax(r.e.f_[i][q], f_eq(r.e, i, q), RInv(r.e.tau_[0]))]]

collide_mrt_body(r, i) ==
    IF r.e.solid_[i] # 0 THEN r
    ELSE [r EXCEPT !.e.f_[i] =
            [q \in Directions |-> relax(r.e.f_[i][q], f_eq(r.e, i, q), omega_q(r.e, i, q))]]

\* the loop body of stream() writing f_ itself instead of f_tmp_
stream_body_in_place(r, i) ==
    [r EXCEPT !.e.f_[i] = [q \in Directions |-> r.e.f_[source_cell(r.e.config_, i, q)][q]],
              !.tmp[i] = [q \in Directions |-> r.e.f_[source_cell(r.e.config_, i, q)][q]]]

\* the loop body of stream() for cell i: f_tmp_[q][i] = f_[q][j]
stream_body(r, i) ==
    [r EXCEPT !.tmp[i] = [q \in Directions |-> r.e.f_[source_cell(r.e.config_, i, q)][q]]]

\* the loop body of apply_boundary_conditions for cell i
boundary_body(r, i) ==
    IF r.e.solid_[i] = 0 THEN r ELSE [r EXCEPT !.e.f_[i] = bounce_back(@, 1)]

\* the first loop of a thermal pass, dT[i] = ..., and the second,
\* temperature_[i] += dT[i]
delta_body(r, i) ==
    [r EXCEPT !.tmp[i] =
        CASE r.pass = "step_conduction" -> conduction_delta(r.e, i, r.dt)
          [] r.pass = "step_advection" -> advection_delta(r.e, i, r.dt)
          [] OTHER -> radiation_delta(r.e, i, r.dt)]

apply_body(r, i) == [r EXCEPT !.e.temperature_[i] = @ + r.tmp[i]]

\* iteration i of the running loop
LoopBody(r, i) ==
    CASE r.pass = "compute_macroscopic" -> macroscopic_body(r, i)
      [] r.pass = "collide_bgk" -> collide_bgk_body(r, i)
      [] r.pass = "collide_mrt" -> collide_mrt_body(r, i)
      [] r.pass = "stream" -> stream_body(r, i)
      [] r.pass = "apply_boundary_conditions" -> boundary_body(r, i)
      [] r.stage = "delta" -> delta_body(r, i)
      [] OTHER -> apply_body(r, i)

\* what follows the loop that has ended: std::swap(f_, f_tmp_) in stream(),
\* the second loop in a thermal pass, otherwise the return
AfterLoop(r) ==
    IF r.pass = "stream" THEN [r EXCEPT !.e.f_ = r.tmp, !.tmp = r.e.f_, !.stage = "done"]
    ELSE IF r.stage = "delta"
         THEN [r EXCEPT !.stage = "apply", !.todo = DOMAIN r.e.temperature_]
         ELSE [r EXCEPT !.stage = "done"]

\* the pass as the sequential definitions above have it
WholePass(r) ==
    CASE r.pass = "compute_macroscopic" -> compute_macroscopic(r.start)
      [] r.pass = "collide_bgk" -> collide_bgk(r.start, equilibrium(r.start))
      [] r.pass = "collide_mrt" -> collide_mrt(r.start, equilibrium(r.start))
      [] r.pass = "stream" -> stream(r.start)
      [] r.pass = "apply_boundary_conditions" -> apply_boundary_conditions(r.start)
      [] r.pass = "step_conduction" -> step_conduction(r.start, r.dt)
      [] r.pass = "step_advection" -> step_advection(r.start, r.dt)
      [] OTHER -> step_radiation(r.start, r.dt)

\* The fields the passes run on.  Fluid: the row of LbmWidth cells with one
\* population raised, cell 1 solid or not, the macroscopic fields as the
\* constructor or as compute_macroscopic leaves them.  Thermal: a grid of
\* RaceWidth by 3 cells, its inner cells air moved by the fluid, its border
\* granite, the temperature rising with the square of the cell index.
RaceWidth == 4
RaceDt == 1000
RaceSlope == 500

RaceConfig ==
    [nx |-> RaceWidth, ny |-> 3, nz |-> 1, dx |-> 1, enable_radiation |-> TRUE,
     radiation_threshold |-> RADIATION_THRESHOLD]

RaceMaterial(i) == IF i \in InnerCells(RaceConfig) THEN "air" ELSE "granite"

RaceEngine ==
    [ThermalEngine(RaceConfig) EXCEPT
        !.temperature_ = [i \in ThermalCells(RaceConfig) |-> THERMAL_ROOM_TEMP + RaceSlope * i * i],
        !.material_list_ = <<"air", "granite">>,
        !.material_id_ = [i \in ThermalCells(RaceConfig) |->
                            IF RaceMaterial(i) = "air" THEN 0 ELSE 1],
        !.k_ = [i \in ThermalCells(RaceConfig) |-> MATERIALS[RaceMaterial(i)].thermal_conductivity],
        !.cp_ = [i \in ThermalCells(RaceConfig) |-> MATERIALS[RaceMaterial(i)].specific_heat],
        !.rho_ = [i \in ThermalCells(RaceConfig) |-> MATERIALS[RaceMaterial(i)].density],
        !.emissivity_ = [i \in ThermalCells(RaceConfig) |-> MATERIALS[RaceMaterial(i)].emissivity],
        !.fluid_ux_ = [i \in ThermalCells(RaceConfig) |->
                          IF i \in InnerCells(RaceConfig) THEN 1 ELSE 0],
        !.fluid_uy_ = [i \in ThermalCells(RaceConfig) |->
                          IF i \in InnerCells(RaceConfig) THEN -1 ELSE 0]]

RaceFluids ==
    UNION {{set_solid(e, 1, wall), compute_macroscopic(set_solid(e, 1, wall))} :
             e \in {[LBMEngine(cfg) EXCEPT !.f_ = Perturbed(cfg, c, p)] :
                       cfg \in {g \in LbmConfigs :
                                  ~g.use_gpu /\ ~g.enable_les /\ g.collision_mode = "BGK"},
                       c \in PerturbedCells, p \in PerturbedDirections},
             wall \in BOOLEAN}

InitRace ==
    /\ InitChunks({CHOOSE c \in SmallConfigs : TRUE}, {<<>>})
    /\ coord = <<>>
    /\ lod = <<>>
    /\ \/ /\ thermal = <<>>
          /\ \E e \in RaceFluids, pass \in LbmPasses :
                lbm = [e |-> e, tmp |-> [i \in DOMAIN e.f_ |-> [q \in Directions |-> RZero]],
                       start |-> e, pass |-> pass, stage |-> "loop", todo |-> DOMAIN e.f_]
       \/ /\ lbm = <<>>
          /\ \E pass \in ThermalPasses :
                thermal = [e |-> RaceEngine,
                           tmp |-> [i \in ThermalCells(RaceConfig) |-> 0],
                           start |-> RaceEngine, pass |-> pass, dt |-> RaceDt,
                           stage |-> "delta",
                           todo |-> IF pass = "step_radiation" THEN ThermalCells(RaceConfig)
                                    ELSE InnerCells(RaceConfig)]

\* a worker thread runs iteration i of the running loop
LbmWorker(i) ==
    /\ lbm # <<>>
    /\ lbm.stage # "done"
    /\ i \in lbm.todo
    /\ lbm' = [LoopBody(lbm, i) EXCEPT !.todo = lbm.todo \ {i}]
    /\ UNCHANGED <<chunkVars, coord, lod, thermal>>

ThermalWorker(i) ==
    /\ thermal # <<>>
    /\ thermal.stage # "done"
    /\ i \in thermal.todo
    /\ thermal' = [LoopBody(thermal, i) EXCEPT !.todo = thermal.todo \ {i}]
    /\ UNCHANGED <<chunkVars, coord, lod, lbm>>

\* the loop ends when every iteration has run
LbmJoin ==
    /\ lbm # <<>>
    /\ lbm.stage # "done"
    /\ lbm.todo = {}
    /\ lbm' = AfterLoop(lbm)
    /\ UNCHANGED <<chunkVars, coord, lod, thermal>>

ThermalJoin ==
    /\ thermal # <<>>
    /\ thermal.stage # "done"
    /\ thermal.todo = {}
    /\ thermal' = AfterLoop(thermal)
    /\ UNCHANGED <<chunkVars, coord, lod, lbm>>

NextRace ==
    \/ \E i \in LbmCells(CHOOSE g \in LbmConfigs : TRUE) : LbmWorker(i)
    \/ LbmJoin
    \/ \E i \in ThermalCells(RaceConfig) : ThermalWorker(i)
    \/ ThermalJoin

\* SpecRace: one pass of the fluid or of the thermal engine, its iterations
\* run one at a time in every order
SpecRace == InitRace /\ [][NextRace]_vars

----------------------------------------------------------------------------
(* The main loop's accelerator thermal path (main.cpp) and the thermal       *)
(* compute kernel (gpu_compute.cpp).  The kernel's buffers hold floats; the  *)
(* model holds them as integers, which is exact wherever a cell is at least  *)
(* 2^23 (floats there are the integers, or coarser) or its stencil sums to   *)
(* zero; the inputs of SpecLoop keep every computed cell in one of the two   *)
(* cases.                                                                    *)

\* a float has 24 bits of mantissa: the floats of magnitude below 2^24 * p and
\* not below 2^23 * p are the multiples of p
MANTISSA == 16777216

RECURSIVE FloatStep(_, _)
FloatStep(a, p) == IF a < MANTISSA * p THEN p ELSE FloatStep(a, 2 * p)

\* the multiple of p nearest n / d (d > 0), a tie going to the one for which
\* (base + result) / p is even
Nearest(n, d, p, base) ==
    LET q == n \div (d * p)
        r == n - q * d * p
    IN  IF 2 * r < d * p THEN q * p
        ELSE IF 2 * r > d * p THEN (q + 1) * p
        ELSE IF ((base \div p) + q) % 2 = 0 THEN q * p ELSE (q + 1) * p

\* the float nearest an integer: static_cast<float>, and the rounding of a sum
FloatOf(v) == Nearest(v, 1, FloatStep(Abs(v), 1), 0)

\* the default alpha uploaded by init, 2.5f / (790.0f * 2700.0f), and main's
\* fixed_dt, as fractions <<numerator, denominator>>
DEFAULT_ALPHA == <<5, 2 * 790 * 2700>>
fixed_dt == <<1, 100>>

\* the dense grid the kernel is created for (main: 200 by 200)
LoopWidth == 3

\* THERMAL_SHADER_SOURCE, main(): one invocation, cell (x, y) of temp_out
thermal_shader(temp_in, x, y, width, height, dt) ==
    LET idx == x + y * width
        cell(j) == temp_in[j + 1]
    IN  IF x <= 0 \/ x >= width - 1 \/ y <= 0 \/ y >= height - 1
        THEN cell(idx)
        ELSE LET stencil == FloatOf(FloatOf(FloatOf(FloatOf(cell(idx + 1) + cell(idx - 1))
                                                      + cell(idx + width))
                                              + cell(idx - width))
                                      - FloatOf(4 * cell(idx)))
                 p == FloatStep(Abs(cell(idx)), 1)
             IN  FloatOf(cell(idx) + Nearest(stencil * DEFAULT_ALPHA[1] * dt[1],
                                            DEFAULT_ALPHA[2] * dt[2], p, cell(idx)))

\* ThermalComputeKernel::init; the buffers' contents are not defined until written,
\* and none is read before it is written
ThermalComputeKernel(width, height) ==
    [width_ |-> width, height_ |-> height,
     temp_buffer_ |-> [i \in 1 .. width * height |-> 0],
     temp_new_buffer_ |-> [i \in 1 .. width * height |-> 0],
     swap_buffers_ |-> FALSE]

\* the buffer upload, download and the next step's input are taken from
ActiveBuffer(k) == IF k.swap_buffers_ THEN k.temp_new_buffer_ ELSE k.temp_buffer_

\* ThermalComputeKernel::upload_temperature: the doubles are narrowed to float
upload_temperature(k, temp) ==
    LET temp_f == [i \in 1 .. Len(temp) |-> FloatOf(temp[i])]
    IN  IF k.swap_buffers_ THEN [k EXCEPT !.temp_new_buffer_ = temp_f]
        ELSE [k EXCEPT !.temp_buffer_ = temp_f]

\* ThermalComputeKernel::download_temperature
download_temperature(k) == ActiveBuffer(k)

\* ThermalComputeKernel::step: dispatch over the grid, barrier, swap
kernel_step(k, dt) ==
    LET in_buf == ActiveBuffer(k)
        out_buf == [i \in 1 .. k.width_ * k.height_ |->
                      thermal_shader(in_buf, (i - 1) % k.width_, (i - 1) \div k.width_,
                                     k.width_, k.height_, dt)]
    IN  IF k.swap_buffers_
        THEN [k EXCEPT !.temp_buffer_ = out_buf, !.swap_buffers_ = FALSE]
        ELSE [k EXCEPT !.temp_new_buffer_ = out_buf, !.swap_buffers_ = TRUE]

\* main syncs the dense field with the chunk store when step_count % 10 == 0
SYNC_INTERVAL == 10
MaxLoopSteps == 21      \* iterations of the main loop that are followed
FurnaceTemp == 12582912 \* a temperature written to a chunk, 1.5 * 2^23

\* the world voxel at the centre of the window of each camera chunk the viewer visits
LoopVoxels == {<<0, 0, 0>>, <<-CHUNK_SIZE, 0, 0>>}

\* main before the loop: the kernel is created and the solver's field, at room
\* temperature, is uploaded.  thermal holds the kernel, step_count and, as
\* history of the last iteration: whether it synced, the device field before
\* it (pre), the dense buffer before it (held) and as sync_to_physics filled
\* it (copied), and the device field after its upload (uploaded)
InitLoop ==
    /\ InitChunks(SyncConfigs, {<<>>})
    /\ coord = <<>>
    /\ lod = <<>>
    /\ lbm = <<>>
    /\ thermal = [gpu_thermal |-> upload_temperature(ThermalComputeKernel(LoopWidth, LoopWidth),
                                                      [i \in 1 .. LoopWidth * LoopWidth |-> ROOM_TEMP]),
                  step_count |-> 0, synced |-> FALSE,
                  pre |-> <<>>, held |-> <<>>, copied |-> <<>>, uploaded |-> <<>>]

\* one iteration of the main loop with gpu_thermal_ready: the thermal block
\* and ++step_count
ThermalTick(z_level) ==
    LET sync == thermal.step_count % SYNC_INTERVAL = 0
        kept == [s |-> S0, tb |-> temp_buffer, db |-> density_buffer]
        a == IF sync
             THEN sync_to_physics(S0, temp_buffer, density_buffer, LoopWidth, LoopWidth, z_level)
             ELSE kept
        up == IF sync THEN upload_temperature(thermal.gpu_thermal, a.tb) ELSE thermal.gpu_thermal
        k == kernel_step(up, fixed_dt)
        b == IF sync
             THEN sync_from_physics(a.s, download_temperature(k), a.db, LoopWidth, LoopWidth, z_level)
             ELSE a
    IN  /\ ~spinning
        /\ thermal.step_count < MaxLoopSteps
        /\ Commit(b.s)
        /\ temp_buffer' = b.tb
        /\ density_buffer' = b.db
        /\ log' = [NoLog EXCEPT !.op = "thermal_tick", !.arg = <<thermal.step_count>>]
        /\ thermal' = [gpu_thermal |-> k, step_count |-> thermal.step_count + 1,
                       synced |-> sync, pre |-> ActiveBuffer(thermal.gpu_thermal),
                       held |-> temp_buffer, copied |-> a.tb, uploaded |-> ActiveBuffer(up)]
        /\ UNCHANGED <<config_, camera_chunk_, disk_writable, written, coord, lod, lbm, ops>>

NextLoop ==
    \/ \E pos \in SyncViewerPositions : Update(pos)
    \/ \E w \in LoopVoxels : SetTemperature(w, FurnaceTemp)
    \/ \E z \in ZLevels : ThermalTick(z)

SpecLoop == InitLoop /\ [][NextLoop]_vars

----------------------------------------------------------------------------
(* Claims *)

LoadedCoords == DOMAIN loaded_chunks_

\* C1: whenever a load at capacity evicts a chunk, the evicted chunk is the one
\* whose most recent touch (its load or a later access through get_chunk,
\* get_chunk_at or a voxel accessor) is the oldest among the loaded chunks.
C1_EvictsLeastRecentlyTouched ==
    \A i \in DOMAIN log.ev : log.ev[i].victim = log.ev[i].stalest

\* C2: for max_loaded >= 1, after every operation at most max_loaded chunks are
\* loaded, and a load made with exactly max_loaded chunks loaded evicts exactly
\* one chunk.
C2_CapacityBound ==
    /\ Cardinality(LoadedCoords) <= config_.max_loaded
    /\ \A i \in DOMAIN log.loads :
          log.loads[i].before = config_.max_loaded => log.loads[i].evicted = 1

C2_Witness ==
    /\ Cardinality(LoadedCoords) = config_.max_loaded
    /\ \E i \in DOMAIN log.loads :
          log.loads[i].before = config_.max_loaded /\ log.loads[i].evicted = 1

\* C3: for every int world coordinate w the chunk index c of world_to_chunk and
\* the local index l of the accessors satisfy 0 <= l < CHUNK_SIZE and
\* c * CHUNK_SIZE + l = w, with c the floor of w / CHUNK_SIZE.
C3_DecompositionRoundTrip ==
    coord.pc = "done" =>
        /\ 0 <= coord.l /\ coord.l < CHUNK_SIZE
        /\ coord.c * CHUNK_SIZE + coord.l = coord.w
        /\ coord.c = coord.w \div CHUNK_SIZE

\* C4: a voxel value written with set_material or set_temperature is the value
\* a later get_material or get_temperature of that voxel returns, whatever
\* loads, updates and evictions of its chunk came between.
C4_WrittenValueReadBack ==
    /\ (log.op = "get_temperature" /\ log.arg \in DOMAIN written.t)
          => log.result = written.t[log.arg]
    /\ (log.op = "get_material" /\ log.arg \in DOMAIN written.m)
          => log.result = written.m[log.arg]

\* C5: sync_to_physics and sync_from_physics leave the set of loaded chunk
\* coordinates and the LRU order as they were before the call.
C5_SyncKeepsChunkSet ==
    log.op \in {"sync_to_physics", "sync_from_physics"}
        => log.pre = <<LoadedCoords, lru_order_>>

\* a sync whose window covers a chunk that is not loaded beside one that is
C5_Witness ==
    /\ log.op = "sync_to_physics"
    /\ log.arg = <<2, 1, 0>>
    /\ camera_chunk_ \in LoadedCoords
    /\ <<camera_chunk_[1] - 1, camera_chunk_[2], camera_chunk_[3]>> \notin LoadedCoords

\* C6: sync_to_physics called again with the same window, with nothing done in
\* between, leaves both buffers as the first call left them.
C6_SyncToPhysicsIdempotent ==
    log.op = "sync_to_physics" =>
        /\ sync_to_physics(S0, temp_buffer, density_buffer,
                           log.arg[1], log.arg[2], log.arg[3]).tb = temp_buffer
        /\ sync_to_physics(S0, temp_buffer, density_buffer,
                           log.arg[1], log.arg[2], log.arg[3]).db = density_buffer

\* a sync that copied a heated voxel of a loaded chunk into the buffer
C6_Witness ==
    /\ log.op = "sync_to_physics"
    /\ log.arg = <<2, 1, 0>>
    /\ <<camera_chunk_[1] - 1, camera_chunk_[2], 0>> \in LoadedCoords
    /\ loaded_chunks_[<<camera_chunk_[1] - 1, camera_chunk_[2], 0>>]
          .temperature[Idx(CHUNK_SIZE - 1, 0, 0)] = HotTemp
    /\ temp_buffer[1] = HotTemp

\* the coordinates within Chebyshev distance r of c
Cube(c, r) ==
    {<<c[1] + dx, c[2] + dy, c[3] + dz>> : dx \in -r .. r, dy \in -r .. r, dz \in -r .. r}

\* C7: after update returns, every chunk within load_radius of the viewer's
\* chunk is loaded, whenever (2 * load_radius + 1)^3 <= max_loaded and
\* load_radius <= unload_radius.
C7_LoadCubeLoaded ==
    ( /\ log.op = "update"
      /\ Cardinality(Cube(camera_chunk_, config_.load_radius)) <= config_.max_loaded
      /\ config_.load_radius <= config_.unload_radius )
        => Cube(camera_chunk_, config_.load_radius) \subseteq LoadedCoords

\* C8: after update returns, no loaded chunk is farther than unload_radius from
\* the viewer's chunk, and every dirty chunk update destroyed was saved first.
C8_UnloadDistantSaved ==
    log.op = "update" =>
        /\ \A c \in LoadedCoords :
              ChebyshevDist(c, camera_chunk_) <= config_.unload_radius
        /\ \A i \in DOMAIN log.unl : log.unl[i].dirty => log.unl[i].saved

\* the neighbour of chunk c across face f (+X, -X, +Y, -Y, +Z, -Z)
Neighbour(c, f) ==
    CASE f = 0 -> <<c[1] + 1, c[2], c[3]>>
      [] f = 1 -> <<c[1] - 1, c[2], c[3]>>
      [] f = 2 -> <<c[1], c[2] + 1, c[3]>>
      [] f = 3 -> <<c[1], c[2] - 1, c[3]>>
      [] f = 4 -> <<c[1], c[2], c[3] + 1>>
      [] OTHER -> <<c[1], c[2], c[3] - 1>>

\* the flat index, in the neighbour across face f, of the voxel that adjoins
\* ghost cell g = a + b * CHUNK_SIZE
Adjoining(f, g) ==
    LET a == g % CHUNK_SIZE
        b == g \div CHUNK_SIZE
    IN CASE f = 0 -> Idx(0, a, b)
         [] f = 1 -> Idx(CHUNK_SIZE - 1, a, b)
         [] f = 2 -> Idx(a, 0, b)
         [] f = 3 -> Idx(a, CHUNK_SIZE - 1, b)
         [] f = 4 -> Idx(a, b, 0)
         [] OTHER -> Idx(a, b, CHUNK_SIZE - 1)

\* C9: after exchange_ghost_cells, for every loaded chunk and each of its six
\* faces whose neighbour is loaded, the ghost buffer of the face equals the
\* neighbour's adjoining layer of temperatures; no interior temperature changes.
C9_GhostFacesMatchNeighbours ==
    log.op = "exchange_ghost_cells" =>
        /\ \A c \in LoadedCoords : \A f \in Faces :
              Neighbour(c, f) \in LoadedCoords =>
                 \A g \in FaceCells :
                    loaded_chunks_[c].ghost_temp[f][g] =
                       loaded_chunks_[Neighbour(c, f)].temperature[Adjoining(f, g)]
        /\ \A c \in LoadedCoords : loaded_chunks_[c].temperature = log.pre[c]

\* C10: when the file of a chunk is missing or corrupt (wrong magic, wrong
\* version, too short), loading it invokes the generator and the loaded chunk
\* holds exactly the generator's output.
C10_CorruptFileIsCacheMiss ==
    \A i \in DOMAIN log.loads :
        log.loads[i].file # "valid" => log.loads[i].as_generated

\* the viewport bounds as the claim reads them: both ends included
InsideViewport(m, c) ==
    /\ m.viewport_.x_min <= c[1] /\ c[1] <= m.viewport_.x_max
    /\ m.viewport_.y_min <= c[2] /\ c[2] <= m.viewport_.y_max

\* C19: should_update returns true for every cell inside the viewport bounds
\* at every tick, and for a cell outside them returns true exactly when
\* get_region of the cell equals step_count mod num_regions.
C19_ShouldUpdateRule ==
    lod.at >= 0 =>
        \A c \in DOMAIN lod.updated :
            IF InsideViewport(lod.asked, c)
            THEN lod.updated[c]
            ELSE lod.updated[c] <=>
                    (get_region(lod.asked, c[1], c[2])
                        = lod.at % lod.asked.config_.num_regions)

\* a tick that answered true for a cell on the viewport's upper edge, true for a
\* cell outside the viewport and false for another cell outside it
C19_Witness ==
    /\ lod.at >= 0
    /\ \E c \in DOMAIN lod.updated :
          /\ InsideViewport(lod.asked, c)
          /\ c[1] = lod.asked.viewport_.x_max
          /\ lod.updated[c]
    /\ \E c, d \in DOMAIN lod.updated :
          /\ ~InsideViewport(lod.asked, c) /\ lod.updated[c]
          /\ ~InsideViewport(lod.asked, d) /\ ~lod.updated[d]

\* C20: in every run of num_regions consecutive ticks every cell is told to
\* update at least once (no cell goes num_regions ticks without an update),
\* and get_region returns an index in 0 .. num_regions - 1.
C20_NoCellStarves ==
    \A c \in DOMAIN lod.idle :
        /\ lod.idle[c] < lod.m.config_.num_regions
        /\ get_region(lod.m, c[1], c[2]) \in 0 .. lod.m.config_.num_regions - 1

\* a cell outside the viewport that has waited num_regions - 1 ticks
C20_Witness ==
    \E c \in DOMAIN lod.idle :
        /\ lod.m.config_.num_regions >= 2
        /\ ~InsideViewport(lod.asked, c)
        /\ lod.idle[c] = lod.m.config_.num_regions - 1


\* the sum of f_q over all cells and directions
TotalMass(e) == Total([i \in DOMAIN e.f_ |-> Density(e.f_[i])], 0, LbmWidth - 1)

NoSolid(e) == \A i \in DOMAIN e.solid_ : e.solid_[i] = 0

Inside == {i \in 0 .. LbmWidth - 1 : \E v, w \in WallCells : v < i /\ i < w} \ WallCells
Outside == (0 .. LbmWidth - 1) \ (Inside \cup WallCells)
Sides == {Inside, Outside}

\* the sum of f_q over the cells of side and all directions
SideMass(e, side) ==
    Total([i \in DOMAIN e.f_ |-> IF i \in side THEN Density(e.f_[i]) ELSE RZero],
          0, LbmWidth - 1)

Walled(e) == \A w \in WallCells : e.solid_[w] # 0

C15_UnknownMaterialRejected ==
    (thermal.op = "set_material" /\ thermal.name \notin DOMAIN MATERIALS) =>
        /\ thermal.e.material_id_[thermal.cell] = thermal.pre.material_id_[thermal.cell]
        /\ thermal.e.k_[thermal.cell] = thermal.pre.k_[thermal.cell]
        /\ thermal.e.cp_[thermal.cell] = thermal.pre.cp_[thermal.cell]
        /\ thermal.e.rho_[thermal.cell] = thermal.pre.rho_[thermal.cell]
        /\ thermal.e.emissivity_[thermal.cell] = thermal.pre.emissivity_[thermal.cell]
        /\ thermal.e.material_list_ = thermal.pre.material_list_

\* C16: a transient source contributes to exactly one step: once step() has
\* applied it the cell's accumulator is zero, so a step that follows without
\* a new add_heat_source finds nothing to apply.
C16_TransientSourceCleared ==
    thermal.op = "step" => \A i \in DOMAIN thermal.e.heat_sources_ : thermal.e.heat_sources_[i] = 0

\* the material row of cell i (the cell has a material of the table)
Props(i) == PropsOf(thermal.e, i)[1]

C22_SyncCopiesFullState ==
    /\ (lbm.op = "synchronize_to_device" /\ lbm.e.gpu_buffers_.initialized)
          => lbm.e.gpu_buffers_.f_ = lbm.e.f_
    /\ (lbm.op = "synchronize_to_host" /\ lbm.e.gpu_buffers_.initialized)
          => /\ lbm.e.f_ = lbm.e.gpu_buffers_.f_
             /\ lbm.e.rho_ = lbm.e.gpu_buffers_.rho_
             /\ lbm.e.ux_ = lbm.e.gpu_buffers_.ux_
             /\ lbm.e.uy_ = lbm.e.gpu_buffers_.uy_
             /\ lbm.e.uz_ = lbm.e.gpu_buffers_.uz_

\* the cell at (x, y, z) moved back by the velocity of direction q, each
\* coordinate modulo the size of the grid
PulledFrom(cfg, x, y, z, q) ==
    lbm_idx(cfg, (x - CX[q]) % cfg.nx, (y - CY[q]) % cfg.ny, (z - CZ[q]) % cfg.nz)

\* C23: after stream() the population q of every cell (x, y, z) is the
\* population q that the cell at ((x - cx_q) mod nx, (y - cy_q) mod ny,
\* (z - cz_q) mod nz) had before, for components 1, 0 and -1 and for grids
\* that are one cell wide, high or deep.
C23_StreamPullsWithPeriodicWrap ==
    lbm.op = "stream" =>
        \A x \in 0 .. lbm.e.config_.nx - 1, y \in 0 .. lbm.e.config_.ny - 1,
           z \in 0 .. lbm.e.config_.nz - 1, q \in Directions :
            lbm.e.f_[lbm_idx(lbm.e.config_, x, y, z)][q]
                = lbm.pre.f_[PulledFrom(lbm.e.config_, x, y, z, q)][q]

\* a grid 3 wide and 1 deep after stream(): direction 2 (cx = -1) of the
\* last cell of a row came around the edge from the first, direction 1 of the
\* first from the last, and direction 6 (cz = -1) stayed in its layer
C23_Witness ==
    /\ lbm.op = "stream"
    /\ lbm.e.config_.nx = 3 /\ lbm.e.config_.ny = 2 /\ lbm.e.config_.nz = 1
    /\ lbm.e.f_[lbm_idx(lbm.e.config_, 2, 1, 0)][2] = lbm.pre.f_[lbm_idx(lbm.e.config_, 0, 1, 0)][2]
    /\ lbm.e.f_[lbm_idx(lbm.e.config_, 0, 1, 0)][1] = lbm.pre.f_[lbm_idx(lbm.e.config_, 2, 1, 0)][1]
    /\ lbm.e.f_[lbm_idx(lbm.e.config_, 1, 0, 0)][6] = lbm.pre.f_[lbm_idx(lbm.e.config_, 1, 0, 0)][6]
    /\ lbm.e.f_ # lbm.pre.f_

C25_PhaseOnlyAdvances ==
    \A i \in DOMAIN thermal.e.phase_ :
        /\ PhaseRank(thermal.e.phase_[i]) >= PhaseRank(thermal.pre.phase_[i])
        /\ PhaseRank(thermal.e.phase_[i]) <= PhaseRank(thermal.pre.phase_[i]) + 1
        /\ thermal.op # "step" => thermal.e.phase_[i] = thermal.pre.phase_[i]

\* a solid cell of ice that a step() found far above its melting point, with
\* more heat than its latent heat of fusion to absorb, and left MELTING
C25_Witness ==
    /\ thermal.op = "step"
    /\ \E i \in DOMAIN thermal.e.phase_ :
          /\ thermal.pre.phase_[i] = "SOLID"
          /\ thermal.e.phase_[i] = "MELTING"
          /\ thermal.e.enthalpy_[i]
                >= LatentVolume(thermal.e, i, MATERIALS["ice"].latent_heat_fusion)
          /\ thermal.pre.temperature_[i] >= MATERIALS["ice"].boiling_point
          /\ thermal.e.material_list_[thermal.e.material_id_[i] + 1] = "ice"

\* C26: whatever the order in which the iterations of a data-parallel pass
\* run, the pass leaves the engine as the pass run cell after cell leaves it:
\* no iteration reads what another iteration of the same pass writes.
C26_PassesAreOrderIndependent ==
    /\ (lbm # <<>> /\ lbm.stage = "done") => lbm.e = WholePass(lbm)
    /\ (thermal # <<>> /\ thermal.stage = "done") => thermal.e = WholePass(thermal)

\* a finished stream() that moved the raised population to the next cell
C26_Witness ==
    /\ lbm # <<>>
    /\ lbm.stage = "done"
    /\ lbm.pass = "stream"
    /\ lbm.start.f_[1][1] = RAdd(W[1], ROne)
    /\ lbm.e.f_[2][1] = RAdd(W[1], ROne)
    /\ lbm.e.f_[1][1] = W[1]

\* C27: at a sync tick of the main loop after the first, when the chunk store
\* still holds in the window what the previous sync wrote there, the field that
\* sync_to_physics and upload put on the device is the field the device had
\* reached: no thermal step taken since the previous sync is overwritten.
C27_SyncKeepsStepsTaken ==
    (/\ log.op = "thermal_tick"
     /\ thermal.synced
     /\ thermal.step_count > SYNC_INTERVAL
     /\ thermal.copied = thermal.held)
        => thermal.uploaded = thermal.pre

\* C28: in every state lru_order_ lists exactly the loaded coordinates, each
\* once, lru_map_ has exactly the loaded coordinates as keys, and evict_lru
\* destroys one loaded chunk, the front of lru_order_, whenever a chunk is
\* loaded: an eviction loop finds nothing to unload only when no chunk is loaded.
C28_LruAgreesWithChunkMap ==
    /\ Len(lru_order_) = Cardinality(DOMAIN loaded_chunks_)
    /\ {lru_order_[i] : i \in 1 .. Len(lru_order_)} = DOMAIN loaded_chunks_
    /\ lru_map_ = DOMAIN loaded_chunks_
    /\ DOMAIN loaded_chunks_ # {} =>
          /\ Head(lru_order_) \in DOMAIN loaded_chunks_
          /\ DOMAIN evict_lru(S0).loaded = DOMAIN loaded_chunks_ \ {Head(lru_order_)}
    /\ spinning => DOMAIN loaded_chunks_ = {}

\* an operation has evicted for capacity and unloaded, and two chunks are loaded
C28_Witness ==
    /\ log.ev # <<>>
    /\ Len(lru_order_) = 2
    /\ lru_order_[1] # lru_order_[2]

\* C29: load_chunk ends in every configuration, so get_chunk_at returns, and the
\* chunk it loaded is in the map when it returns.
C29_LoadChunkReturns ==
    /\ ~spinning
    /\ (log.op = "get_chunk_at" /\ log.loads # <<>>) =>
          log.loads[1].coords \in DOMAIN loaded_chunks_

\* C30: while chunk files cannot be written, no step clears a chunk's dirty flag
\* or destroys a dirty chunk: save_all leaves the flag set and unload_chunk /
\* evict_lru keep the chunk.
C30_FailedSaveKeepsData ==
    [][~disk_writable =>
          \A c \in DOMAIN loaded_chunks_ :
             loaded_chunks_[c].dirty =>
                (c \in DOMAIN loaded_chunks_' /\ loaded_chunks_'[c].dirty)]_vars
====
